---- MODULE Spec2Model ----
(***************************************************************************)
(* A model of the arbiter backend (JiriTill/arbiter): the ingestion        *)
(* pipeline with its job-status records, the sliding-window rate limiter,  *)
(* the SSE progress streamer and the citation verifier of /ask.            *)
(*                                                                         *)
(* Conventions.  A nullable column is modelled by 0 (file_hash,            *)
(* last_ingested_at); the clock starts at 1 so that no timestamp is 0.     *)
(* The database is Postgres with every repository call committing on its   *)
(* own (chunks.py:466, chunks.py:475), so every database statement of the  *)
(* pipeline is one atomic step of the model and nothing is rolled back     *)
(* once it has run.                                                        *)
(***************************************************************************)
EXTENDS Integers, Sequences, FiniteSets, TLC

VARIABLES
    now,        \* the wall clock, in days
    sources,    \* table game_sources: source id -> row
    chunks,     \* table rule_chunks: a set of rows
    job,        \* RQ ingestion jobs (ingest_source_job): job id -> local state
    status,     \* Redis keys job_status:<id>: job id -> record
    svc,        \* one call of the synchronous ingest_source
    overrides,  \* the processes that have run detect_and_save_overrides
    rl,         \* the rate limiter: its sorted set, clock and handlers
    stream,     \* one progress stream of GET /ingest/{job_id}/events
    ver,        \* one /ask request from answer generation to its response
    calc,       \* one call of a function on its own: arguments and result
    gate        \* the gates of the API: the limiter's keys, api_costs, a request

ingestVars == <<now, sources, chunks, job, status, svc, overrides>>

apiVars == <<rl, stream, ver, calc, gate>>

vars == <<ingestVars, apiVars>>

-----------------------------------------------------------------------------
(* Bounds of the model *)

\* The clock stops here.
MaxClock == 32

\* One tick of the clock, in days.
TickDays == 31

(* Program constants *)

\* timedelta(days=30) of expires_at
CHUNK_TTL_DAYS == 30

\* batch_size of the embedding loop of ingest_source_job
EMBED_BATCH_SIZE == 100

-----------------------------------------------------------------------------
(* The catalogue: one game with a base rulebook and an expansion source.   *)

Sources == {1, 2}

\* A source id with no row in game_sources.
SourceIds == {0} \cup Sources

Jobs == {"j1", "j2"}

\* The documents a source URL can serve, named by their SHA-256.
\* Document 1 carries embedded text, document 2 is a scan.
Hashes == {1, 2}

SourceType(s) == IF s = 1 THEN "rulebook" ELSE "expansion"

SourceEdition(s) == IF s = 1 THEN "base" ELSE "exp"

SourceHasUrl(s) == s \in Sources

\* precedence_map.get(source.source_type, 1)
PrecedenceOf(t) ==
    CASE t \in {"rulebook", "reference_card"} -> 1
      [] t = "expansion" -> 2
      [] t \in {"faq", "errata"} -> 3
      [] OTHER -> 1

\* detect_needs_ocr on the pages extracted from document h
detect_needs_ocr(h) == h = 2

\* len(doc) of document h
DocPages(h) == IF h = 2 THEN 2 ELSE 1

\* len(chunk_document(pages)) for document h
NumChunks(h) == IF h = 2 THEN 1 ELSE 2

NewSourceRow ==
    [file_hash |-> 0, needs_ocr |-> FALSE, needs_reingest |-> FALSE,
     last_ingested_at |-> 0]

ChunksOf(cs, s) == {c \in cs : c.source_id = s}

\* rc.embedding IS NOT NULL AND (rc.expires_at IS NULL OR rc.expires_at > NOW())
IndexedChunks(s) ==
    {c \in ChunksOf(chunks, s) : c.emb /\ c.expires_at > now}

\* Chunks retrieval can see: not expired, embedded or not.
LiveChunks(s) == {c \in ChunksOf(chunks, s) : c.expires_at > now}

-----------------------------------------------------------------------------
(* Job status records (Redis) *)

NoStatus == [state |-> "none", pct |-> 0]

TerminalStates == {"ready", "failed"}

\* set_job_status: the key is overwritten whole, whatever it held
set_job_status(st, j, state, pct) ==
    [st EXCEPT ![j] = [state |-> state, pct |-> pct]]

\* A job's local state.  pct and prev_pct are the last two percentages the
\* worker wrote; before_chunks and before_row are the source's chunks and row
\* as the job found them; unembedded tells that /ask enqueued the job for a
\* finished source whose chunks have no embedding; timed_out that the
\* job_timeout of the job has run out; sources_to_index is the number the
\* 202 response of /ask gave when it enqueued the job.
NoJob ==
    [pc |-> "absent", source_id |-> 0, force |-> FALSE, file_hash |-> 0,
     page |-> 0, emb_ok |-> FALSE, i |-> 0, queued_write |-> FALSE,
     pct |-> 0, prev_pct |-> 0, result |-> "none", stage |-> "none",
     via |-> "none", unembedded |-> FALSE, timed_out |-> FALSE,
     sources_to_index |-> 0,
     before_chunks |-> {}, before_row |-> NewSourceRow]

RunningPcs ==
    {"fetch", "download", "extract_begin", "extract", "ocr_gate",
     "ocr_check", "ocr_page", "ocr_done", "chunk_begin", "chunked",
     "embed_begin", "embed", "save_begin", "delete", "insert", "update",
     "finish"}

JobRunning(j) == job[j].pc \in RunningPcs

\* The worker's write of a progress record: the Redis key and the job's own
\* record of what it wrote last (state, pct) and before that (prev_pct).
WorkerWrites(j, pc, state, pct, rest) ==
    /\ status' = set_job_status(status, j, state, pct)
    /\ job' = [job EXCEPT ![j] =
                 [rest EXCEPT !.pc = pc, !.pct = pct,
                              !.prev_pct = job[j].pct]]

\* A return of ingest_source_job after a terminal write.  Of the frame the
\* record keeps what the job downloaded; the rest goes with it.
Ends(j, state, pct, result, stage) ==
    WorkerWrites(j, "done", state, pct,
                 [job[j] EXCEPT !.result = result, !.stage = stage,
                                !.i = 0, !.page = 0, !.emb_ok = FALSE,
                                !.before_chunks = {},
                                !.before_row = NewSourceRow])


-----------------------------------------------------------------------------
(* The ingestion job: enqueue_ingestion and ingest_source_job.  One action *)
(* per progress write or database statement.                               *)

\* enqueue_ingestion(source_id, force) called by POST /ingest and by the
\* admin's start_processing, taken whole: queue.enqueue(...) and the
\* "queued" record.
enqueue_ingestion(j, s, f) ==
    /\ job[j].pc = "absent"
    /\ job' = [job EXCEPT ![j] =
                 [NoJob EXCEPT !.pc = "queued", !.source_id = s, !.force = f,
                               !.via = "api"]]
    /\ status' = set_job_status(status, j, "queued", 0)
    /\ UNCHANGED <<now, sources, chunks, svc, overrides, apiVars>>

\* The same handler with the worker running beside it: queue.enqueue(...)
\* alone, from where a worker may take the job.  The "queued" record is
\* written afterwards, by SetQueued.
Enqueue(j, s, f) ==
    /\ job[j].pc = "absent"
    /\ job' = [job EXCEPT ![j] =
                 [NoJob EXCEPT !.pc = "queued", !.source_id = s, !.force = f,
                               !.via = "api", !.queued_write = TRUE]]
    /\ UNCHANGED <<now, sources, chunks, status, svc, overrides, apiVars>>

\* set_job_status(job.id, state="queued", pct=0) of enqueue_ingestion
SetQueued(j) ==
    /\ job[j].queued_write
    /\ status' = set_job_status(status, j, "queued", 0)
    /\ job' = [job EXCEPT ![j].queued_write = FALSE]
    /\ UNCHANGED <<now, sources, chunks, svc, overrides, apiVars>>

\* Stage 1: set_job_status(job_id, "downloading", 5)
JobBegin(j) ==
    /\ job[j].pc = "queued"
    /\ WorkerWrites(j, "fetch", "downloading", 5,
                    [job[j] EXCEPT
                       !.before_chunks = ChunksOf(chunks, job[j].source_id),
                       !.before_row = IF job[j].source_id \in Sources
                                        THEN sources[job[j].source_id]
                                        ELSE NewSourceRow])
    /\ UNCHANGED <<now, sources, chunks, svc, overrides, apiVars>>

\* get_source_sync and the three early returns, else the 10% record
JobFetch(j) ==
    LET s == job[j].source_id IN
    /\ job[j].pc = "fetch"
    /\ IF s \notin Sources
         THEN Ends(j, "failed", 0, "error", "fetch")
       ELSE IF ~job[j].force /\ sources[s].last_ingested_at # 0
                /\ ~sources[s].needs_reingest
         THEN Ends(j, "ready", 100, "already_ingested", "fetch")
       ELSE IF ~SourceHasUrl(s)
         THEN Ends(j, "failed", 0, "error", "fetch")
       ELSE WorkerWrites(j, "download", "downloading", 10, job[j])
    /\ UNCHANGED <<now, sources, chunks, svc, overrides, apiVars>>

\* Stage 2: download_pdf and compute_file_hash; the server may fail or serve
\* any of the documents
JobDownload(j) ==
    /\ job[j].pc = "download"
    /\ \/ Ends(j, "failed", 15, "error", "download")
       \/ \E h \in Hashes :
            WorkerWrites(j, "extract_begin", "downloading", 30,
                         [job[j] EXCEPT !.file_hash = h])
    /\ UNCHANGED <<now, sources, chunks, svc, overrides, apiVars>>

\* Stage 3: set_job_status(job_id, "extracting", 35)
JobExtractBegin(j) ==
    /\ job[j].pc = "extract_begin"
    /\ WorkerWrites(j, "extract", "extracting", 35, job[j])
    /\ UNCHANGED <<now, sources, chunks, svc, overrides, apiVars>>

\* fitz.open / extract_text_from_pdf: a parse error fails the job at 40
JobExtract(j) ==
    /\ job[j].pc = "extract"
    /\ \/ Ends(j, "failed", 40, "error", "extract")
       \/ WorkerWrites(j, "ocr_gate", "extracting", 50, job[j])
    /\ UNCHANGED <<now, sources, chunks, svc, overrides, apiVars>>

\* The OCR gate: the 52% record of the OCR branch, or Stage 4's 55% record
JobOcrGate(j) ==
    /\ job[j].pc = "ocr_gate"
    /\ IF detect_needs_ocr(job[j].file_hash)
         THEN WorkerWrites(j, "ocr_check", "ocr", 52, job[j])
         ELSE WorkerWrites(j, "chunked", "chunking", 55, job[j])
    /\ UNCHANGED <<now, sources, chunks, svc, overrides, apiVars>>

\* UPDATE game_sources SET needs_ocr = TRUE, file_hash = %s (committed)
MarkNeedsOcr(srcs, s, h) ==
    [srcs EXCEPT ![s].needs_ocr = TRUE, ![s].file_hash = h]

\* is_ocr_available() false or the OCR import failing: mark the source and
\* fail at 52; else the 55% "Starting OCR" record
JobOcrCheck(j) ==
    /\ job[j].pc = "ocr_check"
    /\ \/ /\ sources' = MarkNeedsOcr(sources, job[j].source_id, job[j].file_hash)
          /\ Ends(j, "failed", 52, "needs_ocr", "ocr")
       \/ /\ WorkerWrites(j, "ocr_page", "ocr", 55, [job[j] EXCEPT !.page = 0])
          /\ UNCHANGED sources
    /\ UNCHANGED <<now, chunks, svc, overrides, apiVars>>

\* ocr_progress: pct = 55 + int(20 * page / total)
OcrProgressPct(page, total) == 55 + ((20 * page) \div total)

\* ocr_pdf_bytes calling ocr_progress after each page
JobOcrPage(j) ==
    LET total == DocPages(job[j].file_hash)
        page == job[j].page + 1 IN
    /\ job[j].pc = "ocr_page"
    /\ WorkerWrites(j, IF page = total THEN "ocr_done" ELSE "ocr_page", "ocr",
                    OcrProgressPct(page, total), [job[j] EXCEPT !.page = page])
    /\ UNCHANGED <<now, sources, chunks, svc, overrides, apiVars>>

\* After ocr_pdf_bytes: too little text marks the source and fails at 55;
\* else the 60% "OCR complete" record
JobOcrDone(j) ==
    /\ job[j].pc = "ocr_done"
    /\ \/ /\ sources' = MarkNeedsOcr(sources, job[j].source_id, job[j].file_hash)
          /\ Ends(j, "failed", 55, "ocr_failed", "ocr")
       \/ /\ WorkerWrites(j, "chunk_begin", "ocr", 60, job[j])
          /\ UNCHANGED sources
    /\ UNCHANGED <<now, chunks, svc, overrides, apiVars>>

\* Stage 4 after the OCR branch: set_job_status(job_id, "chunking", 55)
JobChunkBegin(j) ==
    /\ job[j].pc = "chunk_begin"
    /\ WorkerWrites(j, "chunked", "chunking", 55, job[j])
    /\ UNCHANGED <<now, sources, chunks, svc, overrides, apiVars>>

\* chunk_document, then set_job_status(job_id, "chunking", 60)
JobChunked(j) ==
    /\ job[j].pc = "chunked"
    /\ WorkerWrites(j, "embed_begin", "chunking", 60, job[j])
    /\ UNCHANGED <<now, sources, chunks, svc, overrides, apiVars>>

\* Stage 5: set_job_status(job_id, "embedding", 65)
JobEmbedBegin(j) ==
    /\ job[j].pc = "embed_begin"
    /\ WorkerWrites(j, "embed", "embedding", 65, [job[j] EXCEPT !.i = 0])
    /\ UNCHANGED <<now, sources, chunks, svc, overrides, apiVars>>

\* progress = 65 + int(20 * (i + len(batch)) / len(chunk_texts))
EmbedProgressPct(done, total) == 65 + ((20 * done) \div total)

\* One batch of the embedding loop: it succeeds and reports its progress, or
\* batch_create_embeddings raises, every embedding becomes None and the job
\* goes on at 85
JobEmbedBatch(j) ==
    LET n == NumChunks(job[j].file_hash)
        upto == IF job[j].i + EMBED_BATCH_SIZE < n
                  THEN job[j].i + EMBED_BATCH_SIZE ELSE n IN
    /\ job[j].pc = "embed"
    /\ \/ WorkerWrites(j, IF upto = n THEN "save_begin" ELSE "embed",
                       "embedding", EmbedProgressPct(upto, n),
                       [job[j] EXCEPT !.i = upto, !.emb_ok = TRUE])
       \/ WorkerWrites(j, "save_begin", "embedding", 85,
                       [job[j] EXCEPT !.emb_ok = FALSE])
    /\ UNCHANGED <<now, sources, chunks, svc, overrides, apiVars>>

\* Stage 6: set_job_status(job_id, "saving", 90)
JobSaveBegin(j) ==
    /\ job[j].pc = "save_begin"
    /\ WorkerWrites(j, "delete", "saving", 90, job[j])
    /\ UNCHANGED <<now, sources, chunks, svc, overrides, apiVars>>

\* delete_chunks_by_source_sync: DELETE ... WHERE source_id = %s; commit
delete_chunks_by_source_sync(cs, s) == cs \ ChunksOf(cs, s)

\* create_chunk_sync: INSERT one row; commit.  A row is named by the process
\* that wrote it and its chunk_index (the serial id of the table).
create_chunk_sync(cs, s, idx, emb, by) ==
    cs \cup {[source_id |-> s, chunk_index |-> idx, emb |-> emb,
              expires_at |-> now + CHUNK_TTL_DAYS, by |-> by]}

\* UPDATE game_sources SET file_hash, needs_ocr = FALSE,
\* needs_reingest = FALSE, last_ingested_at = NOW(); commit
MarkIngested(srcs, s, h) ==
    [srcs EXCEPT ![s] = [file_hash |-> h, needs_ocr |-> FALSE,
                         needs_reingest |-> FALSE, last_ingested_at |-> now]]

JobDelete(j) ==
    /\ job[j].pc = "delete"
    /\ chunks' = delete_chunks_by_source_sync(chunks, job[j].source_id)
    /\ job' = [job EXCEPT ![j].pc = "insert", ![j].i = 0]
    /\ UNCHANGED <<now, sources, status, svc, overrides, apiVars>>

\* One turn of the loop over the new chunks
JobInsert(j) ==
    LET n == NumChunks(job[j].file_hash) IN
    /\ job[j].pc = "insert"
    /\ chunks' = create_chunk_sync(chunks, job[j].source_id, job[j].i,
                             job[j].emb_ok, j)
    /\ job' = [job EXCEPT ![j].i = job[j].i + 1,
                          ![j].pc = IF job[j].i + 1 = n THEN "update"
                                    ELSE "insert"]
    /\ UNCHANGED <<now, sources, status, svc, overrides, apiVars>>

JobUpdate(j) ==
    /\ job[j].pc = "update"
    /\ sources' = MarkIngested(sources, job[j].source_id, job[j].file_hash)
    /\ job' = [job EXCEPT ![j].pc = "finish"]
    /\ UNCHANGED <<now, chunks, status, svc, overrides, apiVars>>

\* set_job_status(job_id, "ready", 100, result=result)
JobFinish(j) ==
    /\ job[j].pc = "finish"
    /\ Ends(j, "ready", 100, "success", "persist")
    /\ UNCHANGED <<now, sources, chunks, svc, overrides, apiVars>>

\* A statement of the persist stage raising (connection lost, the RQ job
\* timeout): the outer except writes failed at 0.  What was committed stays.
JobPersistFail(j) ==
    /\ job[j].pc \in {"delete", "insert", "update"}
    /\ Ends(j, "failed", 0, "error", "persist")
    /\ UNCHANGED <<now, sources, chunks, svc, overrides, apiVars>>

\* An except clause of ingest_source_job catching the timeout: the failed
\* record and the return
TimeoutCaught(j, pct, result, stage) ==
    WorkerWrites(j, "done", "failed", pct,
                 [job[j] EXCEPT !.timed_out = TRUE, !.result = result,
                                !.stage = stage, !.i = 0, !.page = 0,
                                !.emb_ok = FALSE, !.before_chunks = {},
                                !.before_row = NewSourceRow])

\* job_timeout=300 of enqueue_ingestion running out while the job runs: the
\* worker's alarm raises JobTimeoutException, an Exception, once, in the
\* statement the job is at, and the try around that statement catches it.
\* The download and the extraction fail the job at 15 and 40; the OCR
\* branch marks the source and fails it at 55; the embedding loop logs a
\* warning and goes on without embeddings at 85; everywhere else the outer
\* except fails the job at 0.
JobTimeout(j) ==
    /\ JobRunning(j)
    /\ ~job[j].timed_out
    /\ CASE job[j].pc = "download" ->
             /\ TimeoutCaught(j, 15, "error", "download")
             /\ UNCHANGED sources
        [] job[j].pc = "extract" ->
             /\ TimeoutCaught(j, 40, "error", "extract")
             /\ UNCHANGED sources
        [] job[j].pc \in {"ocr_check", "ocr_page", "ocr_done"} ->
             /\ sources' = MarkNeedsOcr(sources, job[j].source_id,
                                        job[j].file_hash)
             /\ TimeoutCaught(j, 55, "ocr_failed", "ocr")
        [] job[j].pc = "embed" ->
             /\ WorkerWrites(j, "save_begin", "embedding", 85,
                             [job[j] EXCEPT !.timed_out = TRUE,
                                            !.emb_ok = FALSE])
             /\ UNCHANGED sources
        [] OTHER ->
             /\ TimeoutCaught(j, 0, "error", "timeout")
             /\ UNCHANGED sources
    /\ UNCHANGED <<now, chunks, svc, overrides, apiVars>>

\* The RQ result_ttl of a finished job running out after its status key:
\* the job is gone, and its id (a fresh UUID per enqueue) is not issued again.
JobExpire(j) ==
    /\ job[j].pc = "done"
    /\ ~job[j].queued_write
    /\ status[j] = NoStatus
    /\ job' = [job EXCEPT ![j] = [NoJob EXCEPT !.pc = "gone"]]
    /\ UNCHANGED status
    /\ UNCHANGED <<now, sources, chunks, svc, overrides, apiVars>>

-----------------------------------------------------------------------------
(* The synchronous service ingest_source(source_id, force), one call at a  *)
(* time (ingest_all_pending calls it in a loop).                           *)

NoSvc ==
    [pc |-> "absent", source_id |-> 0, force |-> FALSE, seen_hash |-> 0,
     seen_reingest |-> FALSE,
     file_hash |-> 0, emb_ok |-> FALSE, i |-> 0, result |-> "none"]

SvcRunningPcs ==
    {"fetch", "download", "extract", "delete", "embed", "insert", "update",
     "override"}

SvcReturns(result) == svc' = [svc EXCEPT !.pc = "done", !.result = result]

SvcCall(s, f) ==
    /\ svc.pc \in {"absent", "done"}
    /\ svc' = [NoSvc EXCEPT !.pc = "fetch", !.source_id = s, !.force = f]
    /\ UNCHANGED <<now, sources, chunks, job, status, overrides, apiVars>>

\* get_source_sync and the early returns; source.file_hash and
\* source.needs_reingest are read here
SvcFetch ==
    LET s == svc.source_id IN
    /\ svc.pc = "fetch"
    /\ IF s \notin Sources
         THEN SvcReturns("error")
       ELSE IF ~svc.force /\ sources[s].last_ingested_at # 0
                /\ ~sources[s].needs_reingest
         THEN SvcReturns("already_ingested")
       ELSE IF ~SourceHasUrl(s)
         THEN SvcReturns("no_url")
       ELSE svc' = [svc EXCEPT !.pc = "download",
                               !.seen_hash = sources[s].file_hash,
                               !.seen_reingest = sources[s].needs_reingest]
    /\ UNCHANGED <<now, sources, chunks, job, status, overrides, apiVars>>

\* download_pdf, compute_file_hash and the hash comparison
SvcDownload ==
    /\ svc.pc = "download"
    /\ \/ SvcReturns("error")
       \/ \E h \in Hashes :
            IF ~svc.force /\ svc.seen_hash = h
              THEN svc' = [svc EXCEPT !.pc = "done", !.result = "unchanged",
                                      !.file_hash = h]
              ELSE svc' = [svc EXCEPT !.pc = "extract", !.file_hash = h]
    /\ UNCHANGED <<now, sources, chunks, job, status, overrides, apiVars>>

\* extract_text_from_pdf, the OCR gate (no OCR here: the source is marked and
\* the call returns needs_ocr) and chunk_document
SvcExtract ==
    /\ svc.pc = "extract"
    /\ \/ SvcReturns("error") /\ UNCHANGED sources
       \/ IF detect_needs_ocr(svc.file_hash)
            THEN /\ sources' = MarkNeedsOcr(sources, svc.source_id,
                                            svc.file_hash)
                 /\ SvcReturns("needs_ocr")
            ELSE /\ svc' = [svc EXCEPT !.pc = "delete"]
                 /\ UNCHANGED sources
    /\ UNCHANGED <<now, chunks, job, status, overrides, apiVars>>

SvcDelete ==
    /\ svc.pc = "delete"
    /\ chunks' = delete_chunks_by_source_sync(chunks, svc.source_id)
    /\ svc' = [svc EXCEPT !.pc = "embed"]
    /\ UNCHANGED <<now, sources, job, status, overrides, apiVars>>

\* batch_create_embeddings, or [None] * len(chunks) when it raises
SvcEmbed ==
    /\ svc.pc = "embed"
    /\ \E ok \in BOOLEAN :
         svc' = [svc EXCEPT !.pc = "insert", !.emb_ok = ok, !.i = 0]
    /\ UNCHANGED <<now, sources, chunks, job, status, overrides, apiVars>>

SvcInsert ==
    LET n == NumChunks(svc.file_hash) IN
    /\ svc.pc = "insert"
    /\ chunks' = create_chunk_sync(chunks, svc.source_id, svc.i, svc.emb_ok, "svc")
    /\ svc' = [svc EXCEPT !.i = svc.i + 1,
                          !.pc = IF svc.i + 1 = n THEN "update" ELSE "insert"]
    /\ UNCHANGED <<now, sources, job, status, overrides, apiVars>>

SvcUpdate ==
    /\ svc.pc = "update"
    /\ sources' = MarkIngested(sources, svc.source_id, svc.file_hash)
    /\ IF PrecedenceOf(SourceType(svc.source_id)) = 2
         THEN svc' = [svc EXCEPT !.pc = "override"]
         ELSE SvcReturns("success")
    /\ UNCHANGED <<now, chunks, job, status, overrides, apiVars>>

\* SELECT id FROM game_sources WHERE game_id = %s AND source_type IN
\* ('rulebook', 'reference_card') AND id != %s
BaseSourceIds(s) ==
    {b \in Sources : SourceType(b) \in {"rulebook", "reference_card"} /\ b # s}

\* The override trigger of an expansion source
SvcOverride ==
    /\ svc.pc = "override"
    /\ overrides' = IF BaseSourceIds(svc.source_id) # {}
                      THEN overrides \cup {"svc"} ELSE overrides
    /\ SvcReturns("success")
    /\ UNCHANGED <<now, sources, chunks, job, status, apiVars>>

\* A statement of the save raising: the outer except returns an error
SvcFail ==
    /\ svc.pc \in {"delete", "insert", "update"}
    /\ SvcReturns("error")
    /\ UNCHANGED <<now, sources, chunks, job, status, overrides, apiVars>>

-----------------------------------------------------------------------------
(* Administration, cleanup and the clock *)

\* mark_needs_reingest of POST /admin/sources/{id}/reingest
mark_needs_reingest(s) ==
    /\ ~sources[s].needs_reingest
    /\ sources' = [sources EXCEPT ![s].needs_reingest = TRUE]
    /\ UNCHANGED <<now, chunks, job, status, svc, overrides, apiVars>>

\* SELECT DISTINCT source_id FROM rule_chunks WHERE expires_at < NOW()
ExpiredChunks == {c \in chunks : c.expires_at < now}

\* cleanup_expired_chunks.  The cursor comes from conn.cursor() of a pool
\* opened with no row_factory, so rows are tuples and row["source_id"]
\* raises TypeError as soon as one row comes back; the except returns the
\* error and the connection context rolls back.  With no expired chunk the
\* job returns early.  Neither outcome changes a table.
cleanup_expired_chunks ==
    /\ ExpiredChunks = {} \/ ExpiredChunks # {}
    /\ UNCHANGED <<now, sources, chunks, job, status, svc, overrides, apiVars>>

\* Time passes between requests; a job lasts at most its 300-second timeout.
Tick ==
    /\ now + TickDays <= MaxClock
    /\ \A j \in Jobs : ~JobRunning(j)
    /\ svc.pc \notin SvcRunningPcs
    /\ now' = now + TickDays
    /\ UNCHANGED <<sources, chunks, job, status, svc, overrides, apiVars>>

-----------------------------------------------------------------------------
(* POST /ask up to its indexed check *)

Editions == {"none", "base", "exp"}

\* The edition filter of ask_question; "none" is a request without edition
AskSourceIds(edition) ==
    {s \in Sources : edition = "none" \/ SourceEdition(s) = edition}

\* sources_are_indexed: every source has an embedded, unexpired chunk
sources_are_indexed(ids) == \A s \in ids : IndexedChunks(s) # {}

\* get_unindexed_source_ids
get_unindexed_source_ids(ids) == {s \in ids : IndexedChunks(s) = {}}

\* Sources whose ingestion is on record as done and whose stored chunks are
\* all unexpired rows without an embedding
Unembedded(s) ==
    /\ sources[s].last_ingested_at # 0
    /\ ~sources[s].needs_reingest
    /\ LiveChunks(s) # {}
    /\ \A c \in LiveChunks(s) : ~c.emb

FreeJobs == {j \in Jobs : job[j].pc = "absent"}

\* A batch that enqueues a job for its first source alone
enqueue_first_source(assign) ==
    [j \in Jobs |->
       IF \E s \in DOMAIN assign :
             assign[s] = j /\ \A t \in DOMAIN assign : s <= t
         THEN LET s == CHOOSE t \in DOMAIN assign : assign[t] = j IN
              [NoJob EXCEPT !.pc = "queued", !.source_id = s, !.via = "ask",
                            !.sources_to_index = Cardinality(DOMAIN assign)]
         ELSE job[j]]

\* enqueue_batch_ingestion(unindexed_ids): one job per source, force = False
enqueue_batch_ingestion(assign) ==
    [j \in Jobs |->
       IF \E s \in DOMAIN assign : assign[s] = j
         THEN LET s == CHOOSE t \in DOMAIN assign : assign[t] = j IN
              [NoJob EXCEPT !.pc = "queued", !.source_id = s, !.via = "ask",
                            !.unembedded = Unembedded(s),
                            !.sources_to_index = Cardinality(DOMAIN assign)]
         ELSE job[j]]

\* The "queued" records of the jobs of a batch
EnqueueBatchStatus(assign) ==
    [j \in Jobs |->
       IF \E s \in DOMAIN assign : assign[s] = j
         THEN [state |-> "queued", pct |-> 0]
         ELSE status[j]]

\* ask_question: 202 and ingestion jobs when a source is not indexed, else
\* the request goes on to retrieval and answers 200
Ask(edition) ==
    LET ids == AskSourceIds(edition)
        unindexed == get_unindexed_source_ids(ids) IN
    /\ ids # {}
    /\ IF ~sources_are_indexed(ids)
         THEN /\ \E assign \in [unindexed -> FreeJobs] :
                   /\ \A a, b \in unindexed : assign[a] = assign[b] => a = b
                   /\ job' = enqueue_batch_ingestion(assign)
                   /\ status' = EnqueueBatchStatus(assign)
         ELSE UNCHANGED <<job, status>>
    /\ UNCHANGED <<now, sources, chunks, svc, overrides, apiVars>>

-----------------------------------------------------------------------------
(* The sliding-window rate limiter: rate_limit(key, max_requests,          *)
(* window_seconds) as check_ingest_rate_limit calls it for one client IP;  *)
(* check_ask_rate_limit calls the same function with 10 and 60.            *)
(* Time is in seconds.  Every read of time.time() moves the clock on, so   *)
(* no two requests read the same instant and no two members of the sorted  *)
(* set coincide.  The key's EXPIRE of window + 1 seconds only drops a set   *)
(* whose members the next prune would drop anyway; it is not modelled.     *)

\* RATE_LIMITS["ingest"]["ip"]["max_requests"]
INGEST_IP_MAX_REQUESTS == 3

\* RATE_LIMITS["ingest"]["ip"]["window_seconds"]
INGEST_IP_WINDOW_SECONDS == 3600

\* Requests checked in one behaviour.
MaxRlRequests == 6

\* The limiter's clock stops here.
MaxRlClock == 3700

\* A pause between requests, in seconds.
RlPause == 1800

\* Request handlers that may be inside rate_limit at once (server processes)
Handlers == {"h1", "h2"}

NoResult == [allowed |-> FALSE, remaining |-> 0, reset_at |-> 0]

IdleHandler == [pc |-> "idle", t |-> 0, count |-> 0, result |-> NoResult]

NoRl ==
    [clock |-> 1, zset |-> {}, admitted |-> {}, begun |-> 0,
     h |-> [x \in Handlers |-> IdleHandler]]

SetMin(S) == CHOOSE x \in S : \A y \in S : x <= y

Max2(a, b) == IF a >= b THEN a ELSE b

Min2(a, b) == IF a <= b THEN a ELSE b

\* now = time.time()
RlBegin(x) ==
    /\ rl.h[x].pc = "idle"
    /\ rl.begun < MaxRlRequests
    /\ rl.clock < MaxRlClock
    /\ rl' = [rl EXCEPT !.h[x] = [IdleHandler EXCEPT !.pc = "count",
                                                     !.t = rl.clock],
                        !.clock = rl.clock + 1,
                        !.begun = rl.begun + 1]
    /\ UNCHANGED <<ingestVars, stream, ver, calc, gate>>

\* zremrangebyscore(redis_key, 0, window_start)
Pruned(zset, t) == {m \in zset : m > t - INGEST_IP_WINDOW_SECONDS}

\* The first pipeline (prune and zcard) and the comparison with
\* max_requests; a rejection reads the oldest member for reset_at.
RlCount(x) ==
    LET me == rl.h[x]
        kept == Pruned(rl.zset, me.t)
        current_count == Cardinality(kept) IN
    /\ me.pc = "count"
    /\ IF current_count >= INGEST_IP_MAX_REQUESTS
         THEN rl' = [rl EXCEPT
                 !.zset = kept,
                 !.h[x] = [me EXCEPT
                    !.pc = "done", !.count = current_count,
                    !.result = [allowed |-> FALSE, remaining |-> 0,
                                reset_at |-> IF kept # {}
                                  THEN SetMin(kept) + INGEST_IP_WINDOW_SECONDS
                                  ELSE me.t + INGEST_IP_WINDOW_SECONDS]]]
         ELSE rl' = [rl EXCEPT
                 !.zset = kept,
                 !.h[x] = [me EXCEPT !.pc = "add", !.count = current_count]]
    /\ UNCHANGED <<ingestVars, stream, ver, calc, gate>>

\* The second pipeline: zadd(redis_key, {str(now): now}) and the return of
\* an allowed result
RlAdd(x) ==
    LET me == rl.h[x] IN
    /\ me.pc = "add"
    /\ rl' = [rl EXCEPT
              !.zset = rl.zset \cup {me.t},
              !.admitted = rl.admitted \cup {me.t},
              !.h[x] = [me EXCEPT
                 !.pc = "done",
                 !.result = [allowed |-> TRUE,
                             remaining |->
                               Max2(0, INGEST_IP_MAX_REQUESTS - me.count - 1),
                             reset_at |-> me.t + INGEST_IP_WINDOW_SECONDS]]]
    /\ UNCHANGED <<ingestVars, stream, ver, calc, gate>>

\* A Redis error inside the try: the request is let through (fail open) and
\* nothing is recorded
RlFailOpen(x) ==
    LET me == rl.h[x] IN
    /\ me.pc \in {"count", "add"}
    /\ rl' = [rl EXCEPT
              !.h[x] = [me EXCEPT
                 !.pc = "done",
                 !.result = [allowed |-> TRUE,
                             remaining |-> INGEST_IP_MAX_REQUESTS,
                             reset_at |-> me.t + INGEST_IP_WINDOW_SECONDS]]]
    /\ UNCHANGED <<ingestVars, stream, ver, calc, gate>>

\* check_ingest_rate_limit returns the result or raises 429
RlReturn(x) ==
    /\ rl.h[x].pc = "done"
    /\ rl' = [rl EXCEPT !.h[x] = IdleHandler]
    /\ UNCHANGED <<ingestVars, stream, ver, calc, gate>>

\* Time passing with no request
RlWait ==
    /\ rl.clock + RlPause <= MaxRlClock
    /\ rl' = [rl EXCEPT !.clock = rl.clock + RlPause]
    /\ UNCHANGED <<ingestVars, stream, ver, calc, gate>>

-----------------------------------------------------------------------------
(* The status read of the API and the progress streamer: get_job_status,   *)
(* sse_generator and GET /ingest/{job_id}/events.  The stream's time is in *)
(* poll intervals (poll_interval = 0.5 s).                                 *)

\* The timeout handed to sse_generator, in poll intervals.  The route hands
\* over 300 s, which is 600 intervals; the generator takes any value.
StreamTimeout == 2

\* The longest one turn of the loop (sleep and poll) takes, in poll intervals.
MaxSleep == 2

\* terminal_states of stream_ingestion_events
STREAM_TERMINAL_STATES == {"ready", "failed", "error", "unknown"}

\* The job id the stream is opened for
Watched == "j1"

\* The status key running out (JOB_STATUS_TTL after its last write)
StatusExpire(j) ==
    /\ job[j].pc = "done"
    /\ ~job[j].queued_write
    /\ status[j] # NoStatus
    /\ status' = [status EXCEPT ![j] = NoStatus]
    /\ UNCHANGED <<now, sources, chunks, job, svc, overrides, apiVars>>

\* get_job_status: the key if it is there, else what RQ knows of the job
\* (a job function that returned is finished to RQ), else unknown
get_job_status(j) ==
    IF status[j] # NoStatus THEN status[j]
    ELSE IF job[j].pc = "done" THEN [state |-> "ready", pct |-> 100]
    ELSE IF job[j].pc = "queued" THEN [state |-> "queued", pct |-> 0]
    ELSE IF JobRunning(j) THEN [state |-> "processing", pct |-> 10]
    ELSE [state |-> "unknown", pct |-> 0]

\* No stream.  last is last_state (None before the first poll), last_event
\* the type of the last event sent and last_id its id.
NoStream ==
    [pc |-> "idle", elapsed |-> 0, last |-> NoStatus, event_id |-> 0,
     last_event |-> "none", last_id |-> 0, end |-> "none"]

\* elapsed > timeout
StreamTimedOut(elapsed) == elapsed > StreamTimeout

\* Every polled state sent as a progress event
AlwaysProgress(state) == "progress"

\* The event type of a polled state
EventType(state) ==
    IF state \in STREAM_TERMINAL_STATES
      THEN (IF state = "ready" THEN "complete" ELSE "error")
      ELSE "progress"

\* The request arrives: the generator starts and sends "stream connected"
StreamOpen ==
    /\ stream.pc = "idle"
    /\ stream' = [NoStream EXCEPT !.pc = "poll"]
    /\ UNCHANGED <<ingestVars, rl, ver, calc, gate>>

\* One turn of the loop up to its sleep: the timeout check, the poll and
\* the event for a changed (state, pct)
StreamPoll ==
    LET data == get_job_status(Watched) IN
    /\ stream.pc = "poll"
    /\ IF StreamTimedOut(stream.elapsed)
         THEN stream' = [stream EXCEPT !.pc = "closed", !.end = "timeout",
                                       !.last_event = "error",
                                       !.last_id = stream.event_id]
         ELSE \/ stream' = [stream EXCEPT !.pc = "closed",
                                          !.end = "poll_error",
                                          !.last_event = "error",
                                          !.last_id = stream.event_id]
              \/ IF data # stream.last
                   THEN stream' = [stream EXCEPT
                          !.event_id = stream.event_id + 1,
                          !.last = data,
                          !.last_event = EventType(data.state),
                          !.last_id = stream.event_id + 1,
                          !.pc = IF data.state \in STREAM_TERMINAL_STATES
                                   THEN "closed" ELSE "sleep",
                          !.end = IF data.state \in STREAM_TERMINAL_STATES
                                    THEN "terminal" ELSE "none"]
                   ELSE stream' = [stream EXCEPT !.pc = "sleep"]
    /\ UNCHANGED <<ingestVars, rl, ver, calc, gate>>

\* asyncio.sleep(poll_interval) and the keep-alive comment: d intervals pass
\* before the loop reads the clock again
StreamSleep(d) ==
    /\ stream.pc = "sleep"
    /\ stream' = [stream EXCEPT !.pc = "poll", !.elapsed = stream.elapsed + d]
    /\ UNCHANGED <<ingestVars, rl, ver, calc, gate>>

\* The client disconnects: CancelledError is raised again, nothing is sent
StreamCancel ==
    /\ stream.pc \in {"poll", "sleep"}
    /\ stream' = [stream EXCEPT !.pc = "closed", !.end = "cancelled"]
    /\ UNCHANGED <<ingestVars, rl, ver, calc, gate>>

-----------------------------------------------------------------------------
(* Citation verification: levenshtein.py, citation_verifier.py, the two    *)
(* attempts of generate_answer_with_verification and the citation of the   *)
(* /ask response.  A text is a sequence of one-character strings.          *)

IsSpace(c) == c \in {" ", "\n", "\t"}

\* str.lower() on the model's alphabet
Lower(c) ==
    CASE c = "R" -> "r"
      [] c = "D" -> "d"
      [] OTHER -> c

\* re.sub(r'\s+', ' ', text): each run of whitespace becomes one space
RECURSIVE CollapseFrom(_, _)
CollapseFrom(text, i) ==
    IF i > Len(text) THEN <<>>
    ELSE IF IsSpace(text[i])
      THEN (IF i > 1 /\ IsSpace(text[i - 1]) THEN <<>> ELSE <<" ">>)
           \o CollapseFrom(text, i + 1)
      ELSE <<text[i]>> \o CollapseFrom(text, i + 1)

\* str.strip() of a text whose whitespace is collapsed
Strip(text) ==
    LET a == IF Len(text) > 0 /\ text[1] = " " THEN 2 ELSE 1
        b == IF Len(text) > 0 /\ text[Len(text)] = " "
               THEN Len(text) - 1 ELSE Len(text) IN
    SubSeq(text, a, b)

\* normalize_text
normalize_text(text) ==
    LET stripped == Strip(CollapseFrom(text, 1)) IN
    [i \in 1 .. Len(stripped) |-> Lower(stripped[i])]

\* The inner loop of levenshtein_distance.  The rows are sequences whose
\* element k is row[k - 1]; curr_row holds curr_row[0 .. i - 1] when the
\* loop is at i.
RECURSIVE FillRow(_, _, _, _)
FillRow(s1, c, prev_row, curr_row) ==
    IF Len(curr_row) > Len(s1) THEN curr_row
    ELSE LET i == Len(curr_row)
             v == IF s1[i] = c
                    THEN prev_row[i]
                    ELSE 1 + Min2(prev_row[i + 1],
                                  Min2(curr_row[i], prev_row[i]))
         IN FillRow(s1, c, prev_row, Append(curr_row, v))

\* The outer loop over s2
RECURSIVE LevRows(_, _, _, _)
LevRows(s1, s2, prev_row, j) ==
    IF j > Len(s2) THEN prev_row[Len(s1) + 1]
    ELSE LevRows(s1, s2, FillRow(s1, s2[j], prev_row, <<j>>), j + 1)

\* levenshtein_distance(s1, s2)
levenshtein_distance(a, b) ==
    LET s1 == IF Len(a) > Len(b) THEN b ELSE a
        s2 == IF Len(a) > Len(b) THEN a ELSE b IN
    IF Len(s1) = 0 THEN Len(s2)
    ELSE LevRows(s1, s2, [k \in 1 .. Len(s1) + 1 |-> k - 1], 1)

\* window_sizes of find_best_match_window
window_sizes(n) ==
    <<n, (n * 9) \div 10, (n * 11) \div 10, (n * 95) \div 100,
      (n * 105) \div 100>>

\* range(0, source_len - window_size + 1, step) from start on
RECURSIVE SlideFrom(_, _, _, _, _)
SlideFrom(target, source, size, start, best) ==
    IF start > Len(source) - size THEN best
    ELSE LET window == SubSeq(source, start + 1, start + size)
             distance == levenshtein_distance(target, window)
             step == Max2(1, size \div 20)
         IN IF distance < best.distance
              THEN SlideFrom(target, source, size, start + step,
                             [match |-> window, start |-> start,
                              distance |-> distance])
              ELSE SlideFrom(target, source, size, start + step, best)

\* The loop over the window sizes.  The early return at distance 0 gives
\* what the full loop gives, the first window of the least distance.
RECURSIVE TrySizes(_, _, _, _)
TrySizes(target, source, k, best) ==
    IF k > 5 THEN best
    ELSE LET size == window_sizes(Len(target))[k] IN
         IF size <= 0 \/ size > Len(source)
           THEN TrySizes(target, source, k + 1, best)
           ELSE TrySizes(target, source, k + 1,
                         SlideFrom(target, source, size, 0, best))

\* find_best_match_window(target, source); best_distance starts above every
\* distance (float('inf'))
find_best_match_window(target, source) ==
    IF Len(target) = 0 THEN [match |-> <<>>, start |-> 0, distance |-> 0]
    ELSE IF Len(source) = 0
      THEN [match |-> <<>>, start |-> 0, distance |-> Len(target)]
    ELSE IF Len(target) >= Len(source)
      THEN [match |-> source, start |-> 0,
            distance |-> levenshtein_distance(target, source)]
    ELSE TrySizes(target, source, 1,
                  [match |-> <<>>, start |-> 0,
                   distance |-> Len(target) + Len(source) + 1])

\* normalized_quote in normalized_chunk
IsSubstring(a, b) ==
    \E i \in 0 .. Len(b) - Len(a) : SubSeq(b, i + 1, i + Len(a)) = a

\* max_fuzzy_distance of verify_citation
MAX_FUZZY_DISTANCE == 8

\* A tolerance that grows with the quote, where the verifier's is capped
QuoteLengthDistance(n) == n

\* max_allowed_distance of verify_citation: min(max_fuzzy_distance,
\* int(len * max_fuzzy_percent)), then max(that, max_fuzzy_distance)
max_allowed_distance(n) ==
    Max2(Min2(MAX_FUZZY_DISTANCE, (n * 2) \div 100), MAX_FUZZY_DISTANCE)

\* max_allowed of verify_citation_in_any_chunk
MaxAllowedAnyChunk(n) == Max2(MAX_FUZZY_DISTANCE, (n * 2) \div 100)

Unverified(chunk_id) ==
    [verified |-> FALSE, method |-> "none", distance |-> 0,
     chunk_id |-> chunk_id]

\* The fuzzy pass of verify_citation_in_any_chunk: the first chunk of the
\* least distance among the chunks with text
RECURSIVE BestOverall(_, _, _, _)
BestOverall(nq, cands, k, best) ==
    IF k > Len(cands) THEN best
    ELSE IF Len(cands[k].text) = 0 THEN BestOverall(nq, cands, k + 1, best)
    ELSE LET d == find_best_match_window(nq, normalize_text(cands[k].text))
                    .distance
         IN BestOverall(nq, cands, k + 1,
                        IF d < best.distance
                          THEN [distance |-> d, chunk_id |-> cands[k].id]
                          ELSE best)

\* verify_citation_in_any_chunk
verify_citation_in_any_chunk(quote, cands) ==
    LET nq == normalize_text(quote)
        exact == {k \in 1 .. Len(cands) :
                    /\ Len(cands[k].text) > 0
                    /\ IsSubstring(nq, normalize_text(cands[k].text))}
        best == BestOverall(nq, cands, 1,
                            [distance |-> 1000, chunk_id |-> 0]) IN
    IF exact # {}
      THEN [verified |-> TRUE, method |-> "exact", distance |-> 0,
            chunk_id |-> cands[SetMin(exact)].id]
    ELSE IF best.distance <= MaxAllowedAnyChunk(Len(nq))
      THEN [verified |-> TRUE, method |-> "fuzzy",
            distance |-> best.distance, chunk_id |-> best.chunk_id]
    ELSE Unverified(0)

\* verify_citation(quote, chunk_id, chunks)
verify_citation(quote, chunk_id, cands) ==
    LET hits == {k \in 1 .. Len(cands) : cands[k].id = chunk_id}
        nq == normalize_text(quote) IN
    IF Len(quote) = 0 \/ Len(nq) = 0 THEN Unverified(chunk_id)
    ELSE IF hits = {} THEN verify_citation_in_any_chunk(quote, cands)
    ELSE LET chunk_text == cands[SetMin(hits)].text
             nc == normalize_text(chunk_text)
             found == find_best_match_window(nq, nc) IN
         IF Len(chunk_text) = 0 THEN Unverified(chunk_id)
         ELSE IF IsSubstring(nq, nc)
           THEN [verified |-> TRUE, method |-> "exact", distance |-> 0,
                 chunk_id |-> chunk_id]
         ELSE IF found.distance <= max_allowed_distance(Len(nq))
           THEN [verified |-> TRUE, method |-> "fuzzy",
                 distance |-> found.distance, chunk_id |-> chunk_id]
         ELSE Unverified(chunk_id)

\* Chunk texts as the chunker stores them (stripped, never blank) and the
\* quotes a language model may return for them
RuleText ==
    <<"R", "o", "l", "l", " ", " ", "t", "w", "o", "\n", "D", "i", "c", "e">>

OtherText == <<"D", "r", "a", "w", " ", "a", " ", "c", "a", "r", "d">>

QuoteVerbatim == <<" ", "R", "o", "l", "l", "\t", "t", "w", "o", " ">>

QuoteTypo == <<"r", "o", "l", " ", "t", "w", "o", " ", "d", "i", "s", "e">>

QuoteForeign == <<"z", "z", "z", "z", "z", "z", "z", "z", "z", "z">>

QuoteShort == <<"z", "z">>

QuoteBlank == <<" ", " ">>

QuoteEmpty == <<>>

ChunkTexts == {RuleText, OtherText}

Quotes ==
    {QuoteVerbatim, QuoteTypo, QuoteForeign, QuoteShort, QuoteBlank,
     QuoteEmpty}

\* Chunk ids of the retrieved chunks; 0 stands for None and 7 is an id the
\* language model made up
ChunkIds == {1, 2}

AnswerIds == {0, 7} \cup ChunkIds

\* The chunk lists hybrid search may hand to the answer generator
CandidateLists ==
    {<<>>}
    \cup {<<[id |-> i, text |-> t]>> : i \in ChunkIds, t \in ChunkTexts}
    \cup {<<[id |-> 1, text |-> RuleText], [id |-> 2, text |-> OtherText]>>,
          <<[id |-> 1, text |-> OtherText], [id |-> 2, text |-> RuleText]>>}

-----------------------------------------------------------------------------
(* Retrieval scores, conflict detection and confidence.  Scores are in     *)
(* hundredths: 85 stands for 0.85.                                         *)

\* score_threshold=0.05 of the conflict check in hybrid_search
SCORE_THRESHOLD == 5

\* The thresholds of calculate_confidence
HIGH_TOP_SCORE == 85

HIGH_SCORE_GAP == 8

MEDIUM_TOP_SCORE == 70

\* max_sections=3 of the fallback's get_relevant_sections
MAX_SECTIONS == 3

Abs(x) == IF x < 0 THEN 0 - x ELSE x

\* The ScoredChunk list of hybrid_search, best first: the final score and
\* the precedence level of the chunk at the same place of the chunk list.
\* The list handed on holds the chunks alone (sc.chunk).
ScoredLists(n) ==
    IF n = 0 THEN {<<>>}
    ELSE IF n = 1
      THEN {<<[final_score |-> s, precedence_level |-> 1]>> : s \in {90, 60}}
    ELSE {<<[final_score |-> s[1], precedence_level |-> p[1]],
            [final_score |-> s[2], precedence_level |-> p[2]]>> :
            s \in {<<90, 80>>, <<82, 79>>, <<72, 70>>, <<60, 50>>},
            p \in {<<2, 1>>, <<1, 1>>}}

\* check_top_chunks_for_conflict: the language model is asked only about
\* two top chunks with similar scores and different precedence levels;
\* is_conflict is its answer.  TRUE stands for a conflict dict, FALSE for None
check_top_chunks_for_conflict(ranked_chunks, is_conflict) ==
    IF Len(ranked_chunks) < 2 THEN FALSE
    ELSE IF Abs(ranked_chunks[1].final_score - ranked_chunks[2].final_score)
              > SCORE_THRESHOLD THEN FALSE
    ELSE IF ranked_chunks[1].precedence_level
              = ranked_chunks[2].precedence_level THEN FALSE
    ELSE is_conflict

\* detect_conflict, the language-model call of the conflict check: made for
\* two top chunks with similar scores and different precedence levels
detect_conflict_called(ranked_chunks) ==
    /\ Len(ranked_chunks) >= 2
    /\ Abs(ranked_chunks[1].final_score - ranked_chunks[2].final_score)
          <= SCORE_THRESHOLD
    /\ ranked_chunks[1].precedence_level # ranked_chunks[2].precedence_level

\* A response without the note
NoConflictNote(conflict) == ""

\* generate_conflict_note: never empty; called by ask_question only for a
\* conflict that was reported ("" stands for None)
generate_conflict_note(conflict) == IF conflict THEN "Note" ELSE ""

\* hasattr(obj, name)
hasattr(obj, name) == name \in DOMAIN obj

\* calculate_confidence
calculate_confidence(verify_ok, s_top, s_gap, conflict) ==
    IF verify_ok /\ s_top >= HIGH_TOP_SCORE /\ s_gap >= HIGH_SCORE_GAP
       /\ ~conflict THEN "high"
    ELSE IF verify_ok /\ s_top >= MEDIUM_TOP_SCORE /\ ~conflict THEN "medium"
    ELSE "low"

\* estimate_answer_quality: the scores are read from the attribute score of
\* the first two chunks, and are 0.0 for chunks without it
estimate_answer_quality(result, cands) ==
    LET has1 == Len(cands) > 0 /\ hasattr(cands[1], "score")
        s_top == IF has1 THEN cands[1].score ELSE 0
        s_gap == IF has1 /\ Len(cands) > 1 /\ hasattr(cands[2], "score")
                   THEN s_top - cands[2].score ELSE 0 IN
    calculate_confidence(result.verified, s_top, s_gap,
                         result.conflict_note # "")

-----------------------------------------------------------------------------
(* The answer flow of ask_question *)

\* An answer result; notes is the set of the kinds of note in its list
NoAnswer ==
    [quote |-> <<>>, chunk_id |-> 0, verified |-> FALSE, method |-> "none",
     distance |-> 0, conflict_note |-> "", notes |-> {},
     relevant_sections |-> 0]

\* The quote and the chunk id a generation attempt came back with
NoTried == [quote |-> <<>>, chunk_id |-> 0]

\* No superseded rule (None)
NoRule == [chunk_id |-> 0, reason |-> "", confidence |-> 0]

\* The keys of response_data that AskResponse keeps; answer is the answer
\* result the response was built from
NoResponse ==
    [answer |-> NoAnswer, cited |-> FALSE, cached |-> FALSE,
     confidence |-> "none", conflict_note |-> "", notes |-> {},
     superseded_rule |-> NoRule]

\* served: an answer with a verified citation was returned for this request
\* (same game, edition, expansions and question) less than the cache ttl ago.
\* llm_calls: the language-model calls made for the request; usage: the
\* call whose token counts the answer result carries as "_usage" ("" for
\* none); cost_rows: the api_costs rows the request logged, by call.
NoVer ==
    [pc |-> "idle", cands |-> <<>>, scored |-> <<>>, conflict |-> FALSE,
     tried |-> NoTried, answer |-> NoAnswer, response |-> NoResponse,
     cache |-> NoResponse, cache_cands |-> <<>>, served |-> FALSE,
     llm_calls |-> {}, usage |-> "", cost_rows |-> {}, generations |-> 0]

\* generate_answer adds "_usage" to its result
generate_answer_usage == "generate"

\* generate_answer_strict returns its result without "_usage"
generate_answer_strict_usage == ""

\* Step 6 of ask_question: one row, for the "_usage" of the answer result
logged_costs(usage) == IF usage # "" THEN {usage} ELSE {}

\* validate_and_fix_response: an id that is not among the chunks becomes
\* the first chunk's id
validate_and_fix_response(chunk_id, cands) ==
    IF chunk_id # 0 /\ Len(cands) > 0
       /\ chunk_id \notin {cands[k].id : k \in 1 .. Len(cands)}
      THEN cands[1].id
      ELSE chunk_id

\* One attempt of generate_answer_with_verification: the generated result
\* and, when it has a quote and a chunk id, its verification
Attempted(quote, chunk_id, cands) ==
    LET id == validate_and_fix_response(chunk_id, cands)
        v == verify_citation(quote, id, cands) IN
    IF Len(quote) > 0 /\ id # 0 /\ v.verified
      THEN [quote |-> quote, chunk_id |-> id, verified |-> TRUE,
            method |-> v.method, distance |-> v.distance]
      ELSE [quote |-> quote, chunk_id |-> id, verified |-> FALSE,
            method |-> "none", distance |-> 0]

\* The result of a verified attempt: the conflict note is added to it
VerifiedResult(a, corrected, conflict_note) ==
    [quote |-> a.quote, chunk_id |-> a.chunk_id, verified |-> TRUE,
     method |-> a.method, distance |-> a.distance,
     conflict_note |-> conflict_note,
     notes |-> (IF corrected THEN {"corrected"} ELSE {})
               \cup (IF conflict_note # "" THEN {"conflict"} ELSE {}),
     relevant_sections |-> 0]

\* The fallback of generate_answer_with_verification
Fallback(cands, conflict_note) ==
    [NoAnswer EXCEPT
       !.conflict_note = conflict_note,
       !.notes = {"unverified", "review"}
                 \cup (IF conflict_note # "" THEN {"conflict"} ELSE {}),
       !.relevant_sections = Min2(MAX_SECTIONS, Len(cands))]

\* Its early return for an empty chunk list
NoChunksResult == [NoAnswer EXCEPT !.notes = {"no_rules"}]

\* json.dumps(answer) of cache_answer: the citations of response_data are
\* CitationResponse objects, which json cannot encode
JsonSerializable(r) == ~r.cited

\* cache_answer: client.set(key, json.dumps(answer), ex=ttl) inside a try
\* whose except logs a warning
cache_answer(cache, r) == IF JsonSerializable(r) THEN r ELSE cache

\* The methods of ChunksRepository and of its base class
ChunksRepositoryMethods ==
    {"get_by_id_async", "list_async", "count_async", "delete_async",
     "exists_async", "get_by_id_sync", "list_sync", "vector_search",
     "hybrid_search", "keyword_search", "keyword_search_sync",
     "get_chunks_by_source", "create_chunk", "create_chunks_batch",
     "delete_chunks_by_source", "cleanup_expired", "create_chunk_sync",
     "delete_chunks_by_source_sync", "bulk_insert_chunks_sync"}

\* The column overrides_chunk_id of the stored chunks: chunk 2, of an
\* expansion, overrides chunk 1 (0 stands for NULL)
overrides_chunk_id(id) == IF id = 2 THEN 1 ELSE 0

\* override_confidence of the same row
override_confidence(id) == IF id = 2 THEN 85 ELSE 0

\* Step 7 of ask_question: the superseded rule of the cited chunk.  The
\* lookup is chunks_repo.get_by_id, and an exception of the step is logged
\* and leaves None
superseded_rule(quote_chunk_id) ==
    IF quote_chunk_id = 0 THEN NoRule
    ELSE IF "get_by_id" \notin ChunksRepositoryMethods THEN NoRule
    ELSE IF overrides_chunk_id(quote_chunk_id) = 0 THEN NoRule
    ELSE [chunk_id |-> overrides_chunk_id(quote_chunk_id),
          reason |-> "Expansion supersedes this base rule",
          confidence |-> override_confidence(quote_chunk_id)]

\* response_data of ask_question as AskResponse returns it
response_data(answer, cands) ==
    [answer |-> answer,
     cited |-> answer.verified /\ answer.chunk_id # 0 /\ Len(answer.quote) > 0,
     cached |-> FALSE,
     confidence |-> estimate_answer_quality(answer, cands),
     conflict_note |-> answer.conflict_note,
     notes |-> answer.notes,
     superseded_rule |-> superseded_rule(answer.chunk_id)]

\* ask_question up to the answer generation: a cached answer is returned as
\* it is, with the cached flag; otherwise hybrid search returns cands, ranked
\* as scored, and its conflict check
AskRetrieve(cands, scored, is_conflict) ==
    /\ ver.pc \in {"idle", "responded"}
    /\ Len(scored) = Len(cands)
    /\ IF ver.cache # NoResponse
         THEN ver' = [ver EXCEPT
                        !.pc = "responded",
                        !.response = [ver.cache EXCEPT !.cached = TRUE],
                        !.cands = ver.cache_cands,
                        !.scored = <<>>, !.conflict = FALSE,
                        !.tried = NoTried, !.answer = NoAnswer,
                        !.llm_calls = {}, !.usage = "",
                        !.cost_rows = {"cache"}, !.generations = 0]
         ELSE ver' = [ver EXCEPT
                        !.pc = "retrieved",
                        !.response = NoResponse,
                        !.cands = cands,
                        !.scored = scored,
                        !.conflict =
                            check_top_chunks_for_conflict(scored, is_conflict),
                        !.tried = NoTried, !.answer = NoAnswer,
                        !.llm_calls = IF detect_conflict_called(scored)
                                        THEN {"conflict"} ELSE {},
                        !.usage = "", !.cost_rows = {},
                        !.generations = 0]
    /\ UNCHANGED <<ingestVars, rl, stream, calc, gate>>

\* The first attempt of generate_answer_with_verification
AskGenerate(quote, chunk_id) ==
    /\ ver.pc = "retrieved"
    /\ LET a == Attempted(quote, chunk_id, ver.cands)
           note == generate_conflict_note(ver.conflict) IN
       IF ver.cands = <<>>
         THEN ver' = [ver EXCEPT !.pc = "answered", !.answer = NoChunksResult]
       ELSE IF a.verified
         THEN ver' = [ver EXCEPT
                        !.pc = "answered",
                        !.tried = [quote |-> a.quote, chunk_id |-> a.chunk_id],
                        !.answer = VerifiedResult(a, a.chunk_id # chunk_id,
                                                  note),
                        !.llm_calls = @ \cup {"generate"},
                        !.usage = generate_answer_usage,
                        !.generations = @ + 1]
       ELSE ver' = [ver EXCEPT !.pc = "attempt2",
                               !.llm_calls = @ \cup {"generate"},
                               !.generations = @ + 1]
    /\ UNCHANGED <<ingestVars, rl, stream, calc, gate>>

\* The calls of client.chat.completions.create in generate_answer_strict:
\* its own, and when its try block raises (the API fails, or the reply
\* parses to JSON that is not an object) the one of the generate_answer it
\* returns instead
strict_generations(raised) == IF raised THEN 2 ELSE 1

\* The second attempt (generate_answer_strict) and the fallback response
\* without a quote.  The result of a raising strict attempt is that of
\* generate_answer, "_usage" included.
AskGenerateStrict(quote, chunk_id, raised) ==
    /\ ver.pc = "attempt2"
    /\ LET a == Attempted(quote, chunk_id, ver.cands)
           note == generate_conflict_note(ver.conflict) IN
       ver' = [ver EXCEPT
                 !.pc = "answered",
                 !.tried = [quote |-> a.quote, chunk_id |-> a.chunk_id],
                 !.answer = IF a.verified
                              THEN VerifiedResult(a, a.chunk_id # chunk_id,
                                                  note)
                              ELSE Fallback(ver.cands, note),
                 !.llm_calls = @ \cup (IF raised THEN {"generate"}
                                        ELSE {"strict"}),
                 !.usage = IF raised THEN generate_answer_usage
                           ELSE generate_answer_strict_usage,
                 !.generations = @ + strict_generations(raised)]
    /\ UNCHANGED <<ingestVars, rl, stream, calc, gate>>

\* ask_question from "Build response" on: the citation is included only for
\* a verified quote with a chunk id, and a verified answer is handed to
\* cache_answer
AskRespond ==
    /\ ver.pc = "answered"
    /\ LET r == response_data(ver.answer, ver.cands)
           stored == IF ver.answer.verified THEN cache_answer(ver.cache, r)
                     ELSE ver.cache IN
       ver' = [ver EXCEPT
                 !.pc = "responded",
                 !.response = r,
                 !.cache = stored,
                 !.cache_cands = IF stored = ver.cache THEN @ ELSE ver.cands,
                 !.served = @ \/ r.cited,
                 !.cost_rows = logged_costs(ver.usage)]
    /\ UNCHANGED <<ingestVars, rl, stream, calc, gate>>

\* The ttl of the answer cache runs out
CacheExpire ==
    /\ ver.pc \in {"idle", "responded"}
    /\ ver.served \/ ver.cache # NoResponse
    /\ ver' = [ver EXCEPT !.cache = NoResponse, !.cache_cands = <<>>,
                          !.served = FALSE]
    /\ UNCHANGED <<ingestVars, rl, stream, calc, gate>>

-----------------------------------------------------------------------------
(* Functions on their own *)

\* No call
NoCalc == [op |-> "none"]

\* The longest normalized quote and the largest best-window distance drawn
MaxQuoteLen == 460

MaxDistance == 12

\* The fuzzy pass of verify_citation for a normalized quote of len
\* characters whose best window is at the given distance; a quote is never
\* further from its best window than it is long
FuzzyInputs ==
    {[op |-> "fuzzy", len |-> n, distance |-> d, accepted |-> "unset"] :
        n \in 1 .. MaxQuoteLen, d \in 1 .. MaxDistance}

\* if distance <= max_allowed_distance: verified by the fuzzy pass
FuzzyPass ==
    /\ calc.op = "fuzzy"
    /\ calc.accepted = "unset"
    /\ calc.distance <= calc.len
    /\ calc' = [calc EXCEPT
                  !.accepted =
                      IF calc.distance <= max_allowed_distance(calc.len)
                        THEN "yes" ELSE "no"]
    /\ UNCHANGED <<ingestVars, rl, stream, ver, gate>>

\* \w of the regular expressions: letters, digits and the underscore
IsWordChar(c) ==
    c \in {"r", "R", "d", "D", "o", "n", "e", "t", "w", "h", "f", "u", "i",
           "v", "s", "x", "g", "l", "0", "1", "2", "3", "4", "5", "6", "7",
           "8", "9", "_"}

\* str.strip(): the text without its leading and trailing whitespace
StripAll(text) ==
    LET kept == {i \in 1 .. Len(text) : ~IsSpace(text[i])} IN
    IF kept = {} THEN <<>>
    ELSE SubSeq(text, SetMin(kept),
                CHOOSE i \in kept : \A j \in kept : j <= i)

\* re.sub(r'[^\w\s]', '', q)
RemovePunctuation(text) ==
    SelectSeq(text, LAMBDA c : IsWordChar(c) \/ IsSpace(c))

\* number_map of normalize_question
number_map(w) ==
    CASE w = <<"o", "n", "e">> -> <<"1">>
      [] w = <<"t", "w", "o">> -> <<"2">>
      [] w = <<"t", "h", "r", "e", "e">> -> <<"3">>
      [] w = <<"f", "o", "u", "r">> -> <<"4">>
      [] w = <<"f", "i", "v", "e">> -> <<"5">>
      [] w = <<"s", "i", "x">> -> <<"6">>
      [] w = <<"s", "e", "v", "e", "n">> -> <<"7">>
      [] w = <<"e", "i", "g", "h", "t">> -> <<"8">>
      [] w = <<"n", "i", "n", "e">> -> <<"9">>
      [] w = <<"t", "e", "n">> -> <<"1", "0">>
      [] w = <<"e", "l", "e", "v", "e", "n">> -> <<"1", "1">>
      [] w = <<"t", "w", "e", "l", "v", "e">> -> <<"1", "2">>
      [] OTHER -> w

\* re.sub(r'\b' + word + r'\b', digit, q) for every entry of number_map, on
\* a text of word characters and single spaces, read from place i on; w is
\* the word being read
RECURSIVE ReplaceNumberWords(_, _, _)
ReplaceNumberWords(text, i, w) ==
    IF i > Len(text) THEN number_map(w)
    ELSE IF text[i] = " "
      THEN number_map(w) \o <<" ">> \o ReplaceNumberWords(text, i + 1, <<>>)
      ELSE ReplaceNumberWords(text, i + 1, Append(w, text[i]))

\* WordNetLemmatizer.lemmatize(w): a word WordNet does not know is returned
\* as it is, and it knows no word made of the letters questions are drawn
\* from here
lemmatize(w) == w

\* ' '.join(lemmatize(w) for w in q.split()) on a text of word characters
\* and single spaces: the words, without the empty ones, one space apart
RECURSIVE JoinLemmas(_, _, _, _)
JoinLemmas(text, i, w, first) ==
    LET out == IF w = <<>> THEN <<>>
               ELSE (IF first THEN <<>> ELSE <<" ">>) \o lemmatize(w) IN
    IF i > Len(text) THEN out
    ELSE IF text[i] = " "
      THEN out \o JoinLemmas(text, i + 1, <<>>, first /\ w = <<>>)
      ELSE JoinLemmas(text, i + 1, Append(w, text[i]), first)

\* normalize_question(q); nltk tells whether NLTK and its WordNet data are
\* installed (NLTK_AVAILABLE)
normalize_question(q, nltk) ==
    LET lowered == [i \in 1 .. Len(q) |-> Lower(q[i])]
        cleaned == RemovePunctuation(StripAll(lowered))
        numbered == ReplaceNumberWords(CollapseFrom(cleaned, 1), 1, <<>>) IN
    IF q = <<>> THEN <<>>
    ELSE IF nltk THEN JoinLemmas(numbered, 1, <<>>, TRUE)
    ELSE numbered

\* sorted(expansion_ids or [])
Sorted(ids) ==
    LET S == {ids[k] : k \in 1 .. Len(ids)} IN
    [k \in 1 .. Len(ids) |->
        CHOOSE x \in S :
           /\ Cardinality({y \in S : y < x}) < k
           /\ Cardinality({k2 \in 1 .. Len(ids) : ids[k2] <= x}) >= k]

\* generate_cache_key: the parts of the key.  The md5 digests of the
\* expansion list and of the normalized question stand as what they digest:
\* different texts of the model have different digests.
generate_cache_key(game_id, edition, expansion_ids, question, nltk) ==
    <<"answer", game_id, IF edition = "" THEN "base" ELSE edition,
      Sorted(expansion_ids), normalize_question(question, nltk)>>

\* The longest question drawn
MaxQuestionLen == 3

\* The characters questions are drawn from
QuestionChars == {"r", "R", " ", "?"}

Questions ==
    UNION {[1 .. n -> QuestionChars] : n \in 0 .. MaxQuestionLen}

\* Two calls of generate_cache_key that differ in the question alone
KeyInputs ==
    {[op |-> "key", q1 |-> q1, q2 |-> q2, nltk |-> n, key1 |-> <<>>,
      key2 |-> <<>>] : q1 \in Questions, q2 \in Questions, n \in BOOLEAN}

CacheKeys ==
    /\ calc.op = "key"
    /\ calc.key1 = <<>>
    /\ calc' = [calc EXCEPT
                  !.key1 = generate_cache_key(1, "", <<2, 1>>, calc.q1,
                                              calc.nltk),
                  !.key2 = generate_cache_key(1, "", <<2, 1>>, calc.q2,
                                              calc.nltk)]
    /\ UNCHANGED <<ingestVars, rl, stream, ver, gate>>
-----------------------------------------------------------------------------
(* The gates of the API.  POST /ask declares its dependencies in the order *)
(* rate_limit_result = Depends(check_ask_rate_limit), the five             *)
(* repositories, _budget = Depends(check_budget); FastAPI resolves the     *)
(* dependencies of a path operation one after the other in the order of    *)
(* its parameters and calls the function body last, and a dependency that  *)
(* raises ends the request.  Requests carry no session cookie, so the      *)
(* limiter checks the IP key alone.  Time is in seconds, money in cents.   *)

\* RATE_LIMITS["ask"]["ip"]["max_requests"]
ASK_IP_MAX_REQUESTS == 10

\* RATE_LIMITS["ask"]["ip"]["window_seconds"]
ASK_IP_WINDOW_SECONDS == 60

\* RATE_LIMITS["ingest"]["concurrent"]["max_concurrent"]
INGEST_MAX_CONCURRENT == 50

\* ttl_seconds of check_concurrent_limit
CONCURRENT_TTL_SECONDS == 600

\* DEFAULT_BUDGET = 10.0 (USD)
DEFAULT_BUDGET == 1000

\* INTERVAL '24 hours' of get_daily_spend
DAY_SECONDS == 86400

\* Requests of one behaviour.
MaxGateRequests == 4

\* The pauses between requests, in seconds: a minute, a day.
GatePauses == {60, 86400}

\* What a request may cost: nothing (a cache hit, a model without a price)
\* or half the daily budget
AskCosts == {0, 500}

\* Redis during one check: reachable, unreachable, or failing midway
RedisStates == {"up", "down", "drops"}

NoRequest ==
    [pc |-> "idle", order |-> <<>>, counted |-> FALSE, spend |-> 0,
     raised |-> FALSE, status |-> 0]

NoCheck ==
    [raised |-> FALSE, allowed |-> TRUE, current |-> 0, done |-> FALSE]

NoGate ==
    [clock |-> 1, begun |-> 0, zset |-> {}, costs |-> <<>>, req |-> NoRequest,
     concurrent |-> 0, concurrent_exp |-> 0, cc |-> NoCheck]

\* What the limiter's keys may hold when the first request of a behaviour
\* arrives at second 10: nothing, or nine requests of the last seconds and
\* forty-nine ingestions counted
BusyGate ==
    [NoGate EXCEPT !.clock = 10, !.zset = 1 .. 9, !.concurrent = 49,
                   !.concurrent_exp = 10 + CONCURRENT_TTL_SECONDS]

\* rate_limit(key, max_requests, window_seconds) taken whole: the sorted
\* set it leaves and its result.  An exception of Redis is caught and the
\* request let through (raised): at the connection or the first pipeline
\* ("down"), or at the command after the count ("drops": the zrange of a
\* full window, the zadd pipeline of any other).
rate_limit(zset, t, max_requests, window_seconds, redis) ==
    LET kept == {m \in zset : m > t - window_seconds} IN
    IF redis = "down"
      THEN [zset |-> zset, allowed |-> TRUE, counted |-> FALSE,
            raised |-> TRUE]
    ELSE IF redis = "drops"
      THEN [zset |-> kept, allowed |-> TRUE, counted |-> FALSE,
            raised |-> TRUE]
    ELSE IF Cardinality(kept) >= max_requests
      THEN [zset |-> kept, allowed |-> FALSE, counted |-> FALSE,
            raised |-> FALSE]
    ELSE [zset |-> kept \cup {t}, allowed |-> TRUE, counted |-> TRUE,
          raised |-> FALSE]

\* A concurrent check that turns the request away when Redis fails
concurrent_limit_closed(counter, max_concurrent, redis) ==
    IF redis # "up"
      THEN [counter |-> counter, allowed |-> FALSE, current |-> 0,
            raised |-> TRUE]
    ELSE IF counter >= max_concurrent
      THEN [counter |-> counter, allowed |-> FALSE, current |-> counter,
            raised |-> FALSE]
    ELSE [counter |-> counter + 1, allowed |-> TRUE, current |-> counter + 1,
          raised |-> FALSE]

\* check_concurrent_limit(key, max_concurrent): the counter it leaves and
\* its (allowed, current_count).  A full counter is rejected before the
\* increment pipeline is reached.
check_concurrent_limit(counter, max_concurrent, redis) ==
    IF redis = "down"
      THEN [counter |-> counter, allowed |-> TRUE, current |-> 0,
            raised |-> TRUE]
    ELSE IF counter >= max_concurrent
      THEN [counter |-> counter, allowed |-> FALSE, current |-> counter,
            raised |-> FALSE]
    ELSE IF redis = "drops"
      THEN [counter |-> counter, allowed |-> TRUE, current |-> 0,
            raised |-> TRUE]
    ELSE [counter |-> counter + 1, allowed |-> TRUE, current |-> counter + 1,
          raised |-> FALSE]

\* SELECT SUM(cost_usd) FROM api_costs
\* WHERE created_at > NOW() - INTERVAL '24 hours'
RECURSIVE get_daily_spend(_, _, _)
get_daily_spend(costs, t, i) ==
    IF i > Len(costs) THEN 0
    ELSE (IF costs[i].created_at > t - DAY_SECONDS THEN costs[i].cost_usd
          ELSE 0) + get_daily_spend(costs, t, i + 1)

\* A gate that lets a spend equal to the budget through
check_budget_above(current_spend, daily_budget) ==
    IF current_spend > daily_budget THEN 503 ELSE 0

\* if current_spend >= daily_budget: raise HTTPException(503)
check_budget(current_spend, daily_budget) ==
    IF current_spend >= daily_budget THEN 503 ELSE 0

\* costs_repo.log_cost: INSERT INTO api_costs
log_cost(costs, t, cost_usd) ==
    Append(costs, [created_at |-> t, cost_usd |-> cost_usd])

\* A request for POST /ask arrives
GateBegin ==
    /\ gate.req.pc \in {"idle", "done"}
    /\ gate.begun < MaxGateRequests
    /\ gate' = [gate EXCEPT !.req = [NoRequest EXCEPT !.pc = "first"],
                            !.clock = gate.clock + 1,
                            !.begun = gate.begun + 1]
    /\ UNCHANGED <<ingestVars, rl, stream, ver, calc>>

\* The first dependency, check_ask_rate_limit: 429 when the IP's window is
\* full
AskRateLimit(redis) ==
    LET r == rate_limit(gate.zset, gate.clock, ASK_IP_MAX_REQUESTS,
                        ASK_IP_WINDOW_SECONDS, redis) IN
    /\ gate.req.pc = "first"
    /\ gate' = [gate EXCEPT
                  !.zset = r.zset,
                  !.req = [gate.req EXCEPT
                             !.order = Append(gate.req.order, "rate_limit"),
                             !.counted = r.counted,
                             !.raised = r.raised,
                             !.pc = IF r.allowed THEN "last" ELSE "done",
                             !.status = IF r.allowed THEN 0 ELSE 429]]
    /\ UNCHANGED <<ingestVars, rl, stream, ver, calc>>

\* The last dependency, check_budget: 503 when the day's spend has reached
\* the budget
AskBudget ==
    LET current_spend == get_daily_spend(gate.costs, gate.clock, 1)
        code == check_budget(current_spend, DEFAULT_BUDGET) IN
    /\ gate.req.pc = "last"
    /\ gate' = [gate EXCEPT
                  !.req = [gate.req EXCEPT
                             !.order = Append(gate.req.order, "budget"),
                             !.spend = current_spend,
                             !.pc = IF code = 0 THEN "body" ELSE "done",
                             !.status = code]]
    /\ UNCHANGED <<ingestVars, rl, stream, ver, calc>>

\* The body of ask_question: the cache lookup comes first; an answer (from
\* the cache or generated) logs its cost, a 202 logs nothing
AskBody(code, cost_usd) ==
    /\ gate.req.pc = "body"
    /\ code = 202 => cost_usd = 0
    /\ gate' = [gate EXCEPT
                  !.costs = IF code = 200
                              THEN log_cost(gate.costs, gate.clock, cost_usd)
                              ELSE gate.costs,
                  !.req = [gate.req EXCEPT
                             !.order = Append(gate.req.order, "cache"),
                             !.pc = "done",
                             !.status = code]]
    /\ UNCHANGED <<ingestVars, rl, stream, ver, calc>>

\* redis.get(redis_key): a key past its expiry reads as no key
ConcurrentNow ==
    IF gate.clock >= gate.concurrent_exp THEN 0 ELSE gate.concurrent

\* check_concurrent_limit("ingest", 50) of check_ingest_rate_limit; the
\* increment renews the key's expiry
CheckConcurrent(redis) ==
    LET r == check_concurrent_limit(ConcurrentNow, INGEST_MAX_CONCURRENT,
                                    redis) IN
    /\ gate.begun < MaxGateRequests
    /\ gate' = [gate EXCEPT
                  !.begun = gate.begun + 1,
                  !.concurrent = r.counter,
                  !.concurrent_exp =
                      IF r.counter > ConcurrentNow
                        THEN gate.clock + CONCURRENT_TTL_SECONDS
                        ELSE gate.concurrent_exp,
                  !.cc = [raised |-> r.raised, allowed |-> r.allowed,
                          current |-> r.current, done |-> TRUE]]
    /\ UNCHANGED <<ingestVars, rl, stream, ver, calc>>

\* Time passing after a request
GateWait(d) ==
    /\ gate.req.pc = "done"
    /\ gate' = [gate EXCEPT !.clock = gate.clock + d, !.req.pc = "idle"]
    /\ UNCHANGED <<ingestVars, rl, stream, ver, calc>>

-----------------------------------------------------------------------------
(* hybrid_search from the merge of the two result lists to the ranked     *)
(* list.  A search result is a record [id, score]; scores are in          *)
(* hundredths, final scores in ten-thousandths.  The request enables no   *)
(* expansion.                                                              *)

\* KEYWORD_WEIGHT = 0.4
KEYWORD_WEIGHT == 40

\* VECTOR_WEIGHT = 0.6
VECTOR_WEIGHT == 60

\* Chunks a search may return
RankIds == {1, 2, 3}

\* Raw scores of a search
RawScores == {50, 100}

\* precedence_level of a chunk: chunk 3 is of an expansion
ChunkLevel(id) == IF id = 3 THEN 2 ELSE 1

\* The place of id in a result list, 0 if it is not there
PlaceOf(results, id) ==
    IF \E i \in 1 .. Len(results) : results[i].id = id
      THEN CHOOSE i \in 1 .. Len(results) : results[i].id = id
      ELSE 0

\* Step 2: all_chunks, a dict in insertion order: the keyword results, then
\* the vector results that are not among them
RECURSIVE AppendNew(_, _, _)
AppendNew(all, vec, i) ==
    IF i > Len(vec) THEN all
    ELSE IF PlaceOf(all, vec[i].id) # 0
      THEN AppendNew([all EXCEPT ![PlaceOf(all, vec[i].id)].vec_score
                                     = vec[i].score], vec, i + 1)
      ELSE AppendNew(Append(all, [id |-> vec[i].id, bm25_score |-> 0,
                                  vec_score |-> vec[i].score]), vec, i + 1)

all_chunks(kw, vec) ==
    AppendNew([i \in 1 .. Len(kw) |->
                  [id |-> kw[i].id, bm25_score |-> kw[i].score,
                   vec_score |-> 0]], vec, 1)

SeqMin(s) == CHOOSE x \in {s[i] : i \in 1 .. Len(s)} :
                \A i \in 1 .. Len(s) : x <= s[i]

SeqMax(s) == CHOOSE x \in {s[i] : i \in 1 .. Len(s)} :
                \A i \in 1 .. Len(s) : x >= s[i]

\* normalize_scores: min-max, and 1.0 for all when the scores are equal
normalize_scores(scores) ==
    IF scores = <<>> THEN <<>>
    ELSE IF SeqMax(scores) = SeqMin(scores)
      THEN [i \in 1 .. Len(scores) |-> 100]
    ELSE [i \in 1 .. Len(scores) |->
             (100 * (scores[i] - SeqMin(scores)))
                \div (SeqMax(scores) - SeqMin(scores))]

\* calculate_precedence_boost with no expansion enabled
calculate_precedence_boost(precedence_level) ==
    IF precedence_level = 3 THEN 1500
    ELSE IF precedence_level = 2 THEN 0 - 500
    ELSE 0

\* Step 4: the ScoredChunk list before the sort
scored_chunks(all) ==
    LET bm25_norm == normalize_scores([i \in 1 .. Len(all) |->
                                          all[i].bm25_score])
        vec_norm == normalize_scores([i \in 1 .. Len(all) |->
                                         all[i].vec_score])
    IN [i \in 1 .. Len(all) |->
          [id |-> all[i].id,
           final_score |-> KEYWORD_WEIGHT * bm25_norm[i]
                           + VECTOR_WEIGHT * vec_norm[i]
                           + calculate_precedence_boost(ChunkLevel(all[i].id))]]

\* list.sort(key=final_score, reverse=True): stable, so chunks of equal
\* score stay in the order they had; x goes behind every chunk of its
\* score or more
InsertStable(sorted, x) ==
    LET before == {i \in 1 .. Len(sorted) :
                      sorted[i].final_score >= x.final_score}
        n == Cardinality(before)
    IN SubSeq(sorted, 1, n) \o <<x>> \o SubSeq(sorted, n + 1, Len(sorted))

RECURSIVE SortFrom(_, _, _)
SortFrom(s, i, sorted) ==
    IF i > Len(s) THEN sorted
    ELSE SortFrom(s, i + 1, InsertStable(sorted, s[i]))

\* Steps 2 to 5 and the slice top_chunks = scored_chunks[:final_limit]
top_chunks(kw, vec, final_limit) ==
    LET ranked == SortFrom(scored_chunks(all_chunks(kw, vec)), 1, <<>>)
    IN SubSeq(ranked, 1, Min2(final_limit, Len(ranked)))

\* The result lists a search may return: no chunk twice, best score first
ResultLists ==
    {r \in UNION {[1 .. n -> [id : RankIds, score : RawScores]] :
                    n \in 0 .. Cardinality(RankIds)} :
        /\ \A i, k \in 1 .. Len(r) : r[i].id = r[k].id => i = k
        /\ \A i \in 1 .. Len(r) - 1 : r[i].score >= r[i + 1].score}

\* final_limit of the call
FinalLimits == {2, 12}

\* A call of hybrid_search by its two result lists
RankInputs ==
    {[op |-> "rank", kw |-> kw, vec |-> vec, final_limit |-> n,
      top |-> <<>>, done |-> FALSE] :
        kw \in ResultLists, vec \in ResultLists, n \in FinalLimits}

HybridRank ==
    /\ calc.op = "rank"
    /\ ~calc.done
    /\ calc' = [calc EXCEPT
                  !.top = top_chunks(calc.kw, calc.vec, calc.final_limit),
                  !.done = TRUE]
    /\ UNCHANGED <<ingestVars, rl, stream, ver, gate>>

-----------------------------------------------------------------------------
(* expand_with_neighbors and the end of hybrid_search.  The chunks are    *)
(* those of two sources as ingestion stores them: rule_chunks.id is a     *)
(* serial that starts at 1, chunk_index starts at 0 in every source.      *)

\* rule_chunks: source 1 was ingested first (ids 1 to 3), then source 2
ChunkTable ==
    [id \in 1 .. 5 |->
        IF id <= 3 THEN [id |-> id, source_id |-> 1, chunk_index |-> id - 1]
        ELSE [id |-> id, source_id |-> 2, chunk_index |-> id - 4]]

\* The longest candidate list of a call
MaxCandidates == 4

\* expand_top_k of the call
ExpandTopKs == {1, 2, 5}

\* candidate_index[(source_id, chunk_index)]: the id of the candidate with
\* that key, 0 if there is none
candidate_index(all_candidates, source_id, chunk_index) ==
    IF \E i \in 1 .. Len(all_candidates) :
          /\ ChunkTable[all_candidates[i]].source_id = source_id
          /\ ChunkTable[all_candidates[i]].chunk_index = chunk_index
      THEN CHOOSE id \in 1 .. 5 :
              /\ \E i \in 1 .. Len(all_candidates) : all_candidates[i] = id
              /\ ChunkTable[id].source_id = source_id
              /\ ChunkTable[id].chunk_index = chunk_index
      ELSE 0

\* result_chunks with the chunk id appended unless it was seen
AddUnseen(result_chunks, id) ==
    IF \E i \in 1 .. Len(result_chunks) : result_chunks[i] = id
      THEN result_chunks
      ELSE Append(result_chunks, id)

\* A neighbour that is appended whenever it is a candidate
AddNeighborByKey(result_chunks, all_candidates, source_id, chunk_index) ==
    IF candidate_index(all_candidates, source_id, chunk_index) # 0
      THEN AddUnseen(result_chunks,
                     candidate_index(all_candidates, source_id, chunk_index))
      ELSE result_chunks

\* if key in candidate_index and key[1] not in seen_ids: the second test
\* looks for the neighbour's chunk_index among the ids seen
AddNeighbor(result_chunks, all_candidates, source_id, chunk_index) ==
    IF /\ candidate_index(all_candidates, source_id, chunk_index) # 0
       /\ ~\E i \in 1 .. Len(result_chunks) : result_chunks[i] = chunk_index
      THEN AddUnseen(result_chunks,
                     candidate_index(all_candidates, source_id, chunk_index))
      ELSE result_chunks

\* One round of the loop over top_chunks: previous neighbour, chunk, next
\* neighbour
ExpandOne(result_chunks, all_candidates, id) ==
    LET c == ChunkTable[id]
        with_prev == AddNeighbor(result_chunks, all_candidates, c.source_id,
                                 c.chunk_index - 1)
        with_main == AddUnseen(with_prev, id)
    IN AddNeighbor(with_main, all_candidates, c.source_id, c.chunk_index + 1)

RECURSIVE expand_with_neighbors(_, _, _, _)
expand_with_neighbors(top, all_candidates, i, result_chunks) ==
    IF i > Len(top) THEN result_chunks
    ELSE expand_with_neighbors(top, all_candidates, i + 1,
                               ExpandOne(result_chunks, all_candidates,
                                         top[i]))

RECURSIVE AddRemaining(_, _, _)
AddRemaining(rest, i, final_chunks) ==
    IF i > Len(rest) THEN final_chunks
    ELSE AddRemaining(rest, i + 1, AddUnseen(final_chunks, rest[i]))

\* Step 6: the expansion of top_chunks[:expand_top_k], then the remaining
\* top chunks
final_chunks(scored, final_limit, expand_top_k) ==
    LET top == SubSeq(scored, 1, Min2(final_limit, Len(scored)))
        head == SubSeq(top, 1, Min2(expand_top_k, Len(top)))
        rest == SubSeq(top, Min2(expand_top_k, Len(top)) + 1, Len(top))
    IN AddRemaining(rest, 1,
                    expand_with_neighbors(head, scored, 1, <<>>))

\* The ranked candidates of a call: chunk ids, no chunk twice
RankedLists ==
    {s \in UNION {[1 .. n -> 1 .. 5] : n \in 1 .. MaxCandidates} :
        \A i, k \in 1 .. Len(s) : s[i] = s[k] => i = k}

ExpandInputs ==
    {[op |-> "expand", scored |-> s, final_limit |-> n, expand_top_k |-> k,
      final |-> <<>>, done |-> FALSE] :
        s \in RankedLists, n \in FinalLimits, k \in ExpandTopKs}

HybridExpand ==
    /\ calc.op = "expand"
    /\ ~calc.done
    /\ calc' = [calc EXCEPT
                  !.final = final_chunks(calc.scored, calc.final_limit,
                                         calc.expand_top_k),
                  !.done = TRUE]
    /\ UNCHANGED <<ingestVars, rl, stream, ver, gate>>

-----------------------------------------------------------------------------
(* chunk_text on a page of one sentence.  The sentence is the sequence of *)
(* the lengths of its words, which single spaces separate; a chunk is the *)
(* range [first, last] of the words it holds.                             *)

\* The most words of a sentence
MaxWords == 5

\* The lengths of the words
WordLengths == {1, 3, 4, 9}

\* max_tokens of the call
MaxTokenValues == {2, 4}

\* estimate_tokens(text) = len(text) // 4, by the length of the text
estimate_tokens(length) == length \div 4

RECURSIVE SumLengths(_, _, _)
SumLengths(words, first, last) ==
    IF first > last THEN 0
    ELSE words[first] + SumLengths(words, first + 1, last)

\* len(' '.join(words[first .. last]))
JoinedLength(words, first, last) ==
    IF first > last THEN 0
    ELSE SumLengths(words, first, last) + (last - first)

\* sum(estimate_tokens(w + ' ') for w in word_chunk)
RECURSIVE SumWordTokens(_, _, _)
SumWordTokens(words, first, last) ==
    IF first > last THEN 0
    ELSE estimate_tokens(words[first] + 1)
            + SumWordTokens(words, first + 1, last)

\* A chunk of words[first .. last]
WordChunk(words, first, last) ==
    [first |-> first, last |-> last,
     estimated_tokens |-> estimate_tokens(JoinedLength(words, first, last))]

\* for word in words: word_chunk is words[first .. i - 1]; when the loop
\* ends the remaining words become current_sentences and the last chunk
RECURSIVE SplitByWords(_, _, _, _, _, _)
SplitByWords(words, max_tokens, i, first, word_tokens, out) ==
    IF i > Len(words)
      THEN IF first <= Len(words)
             THEN Append(out, WordChunk(words, first, Len(words)))
             ELSE out
    ELSE LET word_token_count == estimate_tokens(words[i] + 1) IN
         IF word_tokens + word_token_count > max_tokens /\ first <= i - 1
           THEN LET overlap_word_count == Max2(1, (i - first) \div 2)
                    kept == i - overlap_word_count
                IN SplitByWords(words, max_tokens, i + 1, kept,
                                SumWordTokens(words, kept, i - 1)
                                    + word_token_count,
                                Append(out, WordChunk(words, first, i - 1)))
           ELSE SplitByWords(words, max_tokens, i + 1, first,
                             word_tokens + word_token_count, out)

\* chunk_text of a page that is one sentence
chunk_text(words, max_tokens) ==
    IF words = <<>> THEN <<>>
    ELSE IF estimate_tokens(JoinedLength(words, 1, Len(words))) > max_tokens
      THEN SplitByWords(words, max_tokens, 1, 1, 0, <<>>)
    ELSE <<WordChunk(words, 1, Len(words))>>

ChunkInputs ==
    {[op |-> "chunk", words |-> w, max_tokens |-> n, chunks |-> <<>>,
      done |-> FALSE] :
        w \in UNION {[1 .. k -> WordLengths] : k \in 1 .. MaxWords},
        n \in MaxTokenValues}

ChunkPage ==
    /\ calc.op = "chunk"
    /\ ~calc.done
    /\ calc' = [calc EXCEPT
                  !.chunks = chunk_text(calc.words, calc.max_tokens),
                  !.done = TRUE]
    /\ UNCHANGED <<ingestVars, rl, stream, ver, gate>>

-----------------------------------------------------------------------------
(* A retrieval beside the worker.  keyword_search is one SELECT over the   *)
(* unexpired rows of the sources asked for; it reads what is committed     *)
(* when it runs.                                                           *)

\* The job that is writing the chunks of source s anew, "none" if no job is
IngestingJob(s) ==
    IF \E j \in Jobs : JobRunning(j) /\ job[j].source_id = s
      THEN CHOOSE j \in Jobs : JobRunning(j) /\ job[j].source_id = s
      ELSE "none"

\* ChunksRepository.keyword_search for one source: the rows it returns, and
\* beside them the job at work on the source and the chunks that job found
KeywordSearch(s) ==
    LET j == IngestingJob(s) IN
    /\ calc' = [op |-> "search", source_id |-> s, rows |-> LiveChunks(s),
                during |-> j,
                old |-> IF j = "none" THEN {} ELSE job[j].before_chunks,
                file_hash |-> IF j = "none" THEN 0 ELSE job[j].file_hash]
    /\ UNCHANGED <<ingestVars, rl, stream, ver, gate>>

-----------------------------------------------------------------------------
(* The concurrent ceiling of /ingest: check_concurrent_limit("ingest", 50) *)
(* by its Redis commands, in server processes that share the counter, and  *)
(* the ingestions of the admitted requests.  Redis answers every command;  *)
(* no ten minutes pass without an increment, so the key does not expire.   *)

\* Requests checked in one behaviour
MaxCcRequests == 4

\* The counter when the first request of a behaviour arrives: no ingestion
\* yet, or forty-nine admitted and still running
CcStarts == {0, 49}

IdleCheck == [pc |-> "idle", current_count |-> 0]

CcInputs ==
    {[op |-> "concurrent", counter |-> n, running |-> n, begun |-> 0,
      rejected |-> 0, h |-> [x \in Handlers |-> IdleCheck]] : n \in CcStarts}

\* current = redis.get(redis_key); the comparison with max_concurrent and
\* the return of (False, current_count)
CcGet(x) ==
    /\ calc.op = "concurrent"
    /\ calc.h[x].pc = "idle"
    /\ calc.begun < MaxCcRequests
    /\ calc' = IF calc.counter >= INGEST_MAX_CONCURRENT
                 THEN [calc EXCEPT !.begun = calc.begun + 1,
                                   !.rejected = calc.rejected + 1]
                 ELSE [calc EXCEPT !.begun = calc.begun + 1,
                                   !.h[x] = [pc |-> "incr",
                                             current_count |-> calc.counter]]
    /\ UNCHANGED <<ingestVars, rl, stream, ver, gate>>

\* pipe.incr(redis_key); pipe.expire(redis_key, ttl_seconds); the request
\* is admitted and start_ingestion enqueues its job
CcIncr(x) ==
    /\ calc.op = "concurrent"
    /\ calc.h[x].pc = "incr"
    /\ calc' = [calc EXCEPT !.counter = calc.counter + 1,
                            !.running = calc.running + 1,
                            !.h[x] = IdleCheck]
    /\ UNCHANGED <<ingestVars, rl, stream, ver, gate>>

\* ingest_source_job returns after its ready or failed record; nothing
\* calls release_concurrent
IngestionEnds ==
    /\ calc.op = "concurrent"
    /\ calc.running > 0
    /\ calc' = [calc EXCEPT !.running = calc.running - 1]
    /\ UNCHANGED <<ingestVars, rl, stream, ver, gate>>

-----------------------------------------------------------------------------
(* detect_overrides.  An expansion chunk is [kw, sim]: whether its text    *)
(* has an override keyword, and its cosine similarity to each base chunk   *)
(* in hundredths; a base chunk is whether it has an embedding.             *)

\* SIMILARITY_THRESHOLD = 0.82
SIMILARITY_THRESHOLD == 82

\* MAX_CANDIDATES_PER_CHUNK = 3
MAX_CANDIDATES_PER_CHUNK == 3

\* The most expansion chunks and base chunks of a call
MaxExpChunks == 2

MaxBaseChunks == 3

\* Similarities below and above the threshold
Similarities == {80, 85}

\* find_similar_base_chunks: the base chunks with an embedding, most
\* similar first (a stable sort), cut to limit
RECURSIVE WithEmbedding(_, _, _)
WithEmbedding(exp_chunk, base_chunks, i) ==
    IF i > Len(base_chunks) THEN <<>>
    ELSE (IF base_chunks[i]
            THEN <<[id |-> i, final_score |-> exp_chunk.sim[i]]>>
            ELSE <<>>) \o WithEmbedding(exp_chunk, base_chunks, i + 1)

find_similar_base_chunks(exp_chunk, base_chunks, limit) ==
    LET similarities == SortFrom(WithEmbedding(exp_chunk, base_chunks, 1),
                                 1, <<>>)
    IN SubSeq(similarities, 1, Min2(limit, Len(similarities)))

\* Step 3: candidates = [(c, s) for c, s in similar_base if s >= threshold]
OverrideCandidates(exp_chunk, base_chunks) ==
    SelectSeq(find_similar_base_chunks(exp_chunk, base_chunks,
                                       MAX_CANDIDATES_PER_CHUNK),
              LAMBDA c : c.final_score >= SIMILARITY_THRESHOLD)

\* A detector that classifies every candidate of a chunk
ClassifyEveryCandidate(e, exp_chunk, base_chunks) ==
    IF ~exp_chunk.kw THEN <<>>
    ELSE LET candidates == OverrideCandidates(exp_chunk, base_chunks) IN
         [k \in 1 .. Len(candidates) |->
             [exp |-> e, base |-> candidates[k].id]]

\* One turn of the loop over the expansion chunks: the classify_override
\* calls it makes for chunk e
ClassifyCalls(e, exp_chunk, base_chunks) ==
    IF ~exp_chunk.kw THEN <<>>
    ELSE LET candidates == OverrideCandidates(exp_chunk, base_chunks) IN
         IF candidates = <<>> THEN <<>>
         ELSE <<[exp |-> e, base |-> candidates[1].id]>>

\* detect_overrides by the calls of classify_override it makes
RECURSIVE detect_overrides(_, _, _)
detect_overrides(expansion_chunks, base_chunks, e) ==
    IF expansion_chunks = <<>> \/ base_chunks = <<>> THEN <<>>
    ELSE IF e > Len(expansion_chunks) THEN <<>>
    ELSE ClassifyCalls(e, expansion_chunks[e], base_chunks)
            \o detect_overrides(expansion_chunks, base_chunks, e + 1)

BaseChunkLists == UNION {[1 .. n -> BOOLEAN] : n \in 0 .. MaxBaseChunks}

ExpansionChunkLists(n) ==
    UNION {[1 .. k -> [kw : BOOLEAN, sim : [1 .. n -> Similarities]]] :
             k \in 0 .. MaxExpChunks}

OverrideInputs ==
    {[op |-> "overrides", expansion_chunks |-> ex, base_chunks |-> b,
      llm_calls |-> <<>>, done |-> FALSE] :
        b \in BaseChunkLists, ex \in ExpansionChunkLists(MaxBaseChunks)}

DetectOverrides ==
    /\ calc.op = "overrides"
    /\ ~calc.done
    /\ calc' = [calc EXCEPT
                  !.llm_calls = detect_overrides(calc.expansion_chunks,
                                                 calc.base_chunks, 1),
                  !.done = TRUE]
    /\ UNCHANGED <<ingestVars, rl, stream, ver, gate>>

-----------------------------------------------------------------------------
(* TTLCache.  _cache is the sequence of its entries [key, t] in the order  *)
(* of the dict (the order of first insertion); t is the timestamp.         *)

\* set operations of one behaviour
MaxCacheSets == 4

\* max_size of the cache
CacheSizes == {1, 3, 20}

\* The keys set
CacheKeyIds == {1, 2, 21, 22}

\* to_remove = max(1, len(sorted_keys) // 10)
to_remove(n) == Max2(1, n \div 10)

\* The place of entry i in sorted(keys, key=timestamp), a stable sort
SortedPlace(cache, i) ==
    Cardinality({k \in 1 .. Len(cache) :
                    \/ cache[k].t < cache[i].t
                    \/ cache[k].t = cache[i].t /\ k < i}) + 1

RECURSIVE KeepFrom(_, _, _)
KeepFrom(cache, i, n) ==
    IF i > Len(cache) THEN <<>>
    ELSE (IF SortedPlace(cache, i) > n THEN <<cache[i]>> ELSE <<>>)
            \o KeepFrom(cache, i + 1, n)

\* An eviction that removes nothing
evict_nothing(cache) == cache

\* _evict_oldest: the oldest tenth, at least one entry, is deleted
evict_oldest(cache) ==
    IF cache = <<>> THEN cache
    ELSE KeepFrom(cache, 1, to_remove(Len(cache)))

\* self._cache[key] = (value, time.time()): a key that is there keeps its
\* place in the dict
PutEntry(cache, key, t) ==
    IF \E i \in 1 .. Len(cache) : cache[i].key = key
      THEN [i \in 1 .. Len(cache) |->
              IF cache[i].key = key THEN [key |-> key, t |-> t]
              ELSE cache[i]]
      ELSE Append(cache, [key |-> key, t |-> t])

\* TTLCache.set
cache_set(cache, max_size, key, t) ==
    PutEntry(IF Len(cache) >= max_size THEN evict_oldest(cache) ELSE cache,
             key, t)

\* A cache as constructed, and a cache of max_size 20 after twenty sets of
\* twenty keys
CacheInputs ==
    {[op |-> "cache", max_size |-> m, cache |-> <<>>, clock |-> 1,
      sets |-> 0, evictions |-> 0] : m \in CacheSizes}
    \cup {[op |-> "cache", max_size |-> 20,
           cache |-> [i \in 1 .. 20 |-> [key |-> i, t |-> i]],
           clock |-> 21, sets |-> 0, evictions |-> 0]}

\* One call of set; time.time() has moved on since the last call or not
CacheSet(key, tick) ==
    /\ calc.op = "cache"
    /\ calc.sets < MaxCacheSets
    /\ calc' = [calc EXCEPT
                  !.cache = cache_set(calc.cache, calc.max_size, key,
                                      calc.clock + tick),
                  !.clock = calc.clock + tick,
                  !.sets = calc.sets + 1,
                  !.evictions = IF Len(calc.cache) >= calc.max_size
                                  THEN @ + 1 ELSE @]
    /\ UNCHANGED <<ingestVars, rl, stream, ver, gate>>

-----------------------------------------------------------------------------
(* The ingestion system *)

\* The tables empty, no job, no call
IngestInit ==
    /\ now = 1
    /\ sources = [s \in Sources |-> NewSourceRow]
    /\ chunks = {}
    /\ job = [j \in Jobs |-> NoJob]
    /\ status = [j \in Jobs |-> NoStatus]
    /\ svc = NoSvc
    /\ overrides = {}

Init ==
    /\ IngestInit
    /\ rl = NoRl
    /\ stream = NoStream
    /\ ver = NoVer
    /\ calc = NoCalc
    /\ gate = NoGate

\* The worker of worker.py: one process, one job at a time
WorkerTakes(j) ==
    /\ \A k \in Jobs : ~JobRunning(k)
    /\ JobBegin(j)

\* The steps of a job once a worker has taken it
JobWork(j) ==
    \/ JobFetch(j)
    \/ JobDownload(j)
    \/ JobExtractBegin(j)
    \/ JobExtract(j)
    \/ JobOcrGate(j)
    \/ JobOcrCheck(j)
    \/ JobOcrPage(j)
    \/ JobOcrDone(j)
    \/ JobChunkBegin(j)
    \/ JobChunked(j)
    \/ JobEmbedBegin(j)
    \/ JobEmbedBatch(j)
    \/ JobSaveBegin(j)
    \/ JobDelete(j)
    \/ JobInsert(j)
    \/ JobUpdate(j)
    \/ JobFinish(j)
    \/ JobPersistFail(j)

Next ==
    \/ \E j \in Jobs, s \in SourceIds, f \in BOOLEAN :
         enqueue_ingestion(j, s, f)
    \/ \E j \in Jobs : WorkerTakes(j)
    \/ \E j \in Jobs : JobWork(j)
    \/ \E s \in Sources : mark_needs_reingest(s)
    \/ cleanup_expired_chunks
    \/ Tick
    \/ \E e \in Editions : Ask(e)

Spec == Init /\ [][Next]_vars

\* Two worker processes on the queue: jobs run side by side.
NextWorkers ==
    \/ \E j \in Jobs, s \in Sources, f \in BOOLEAN : enqueue_ingestion(j, s, f)
    \/ \E j \in Jobs : JobBegin(j)
    \/ \E j \in Jobs : JobWork(j)

SpecWorkers == Init /\ [][NextWorkers]_vars

\* The synchronous service beside the administrator and the clock
NextService ==
    \/ \E s \in SourceIds, f \in BOOLEAN : SvcCall(s, f)
    \/ SvcFetch
    \/ SvcDownload
    \/ SvcExtract
    \/ SvcDelete
    \/ SvcEmbed
    \/ SvcInsert
    \/ SvcUpdate
    \/ SvcOverride
    \/ SvcFail
    \/ \E s \in Sources : mark_needs_reingest(s)
    \/ cleanup_expired_chunks
    \/ Tick

SpecService == Init /\ [][NextService]_vars

-----------------------------------------------------------------------------
(* Properties of the ingestion pipeline *)

\* The source row is what the job found, but for needs_reingest, which the
\* administrator may raise while the job runs.
RowAsBefore(j) ==
    sources[job[j].source_id] =
        [job[j].before_row EXCEPT
           !.needs_reingest = sources[job[j].source_id].needs_reingest]

\* The same of the next state's tables
RowAsBeforeNext(j) ==
    sources'[job[j].source_id] =
        [job[j].before_row EXCEPT
           !.needs_reingest = sources'[job[j].source_id].needs_reingest]

\* C1: when a statement of the persist stage (the delete, an insert, the
\* update of the source row) fails, the step that ends the job as failed
\* leaves the source's chunk set and its row as they were when the
\* ingestion began.
C1_PersistFailureLeavesSourceAsBefore ==
    [][\A j \in Jobs :
         (/\ job[j].pc \in {"delete", "insert", "update"}
          /\ job'[j].pc = "done"
          /\ job'[j].result = "error")
         => /\ ChunksOf(chunks', job[j].source_id) = job[j].before_chunks
            /\ RowAsBeforeNext(j)]_vars

\* C2: while a job has not written a terminal record, each percentage its
\* worker writes is at least the one it wrote before.
C2_PctNeverDecreases ==
    \A j \in Jobs : JobRunning(j) => job[j].pct >= job[j].prev_pct

\* C3: every source with last_ingested_at set and needs_reingest false has
\* a chunk with an embedding whose expires_at is in the future.
C3_IngestedSourceHasIndexedChunk ==
    \A s \in Sources :
        (sources[s].last_ingested_at # 0 /\ ~sources[s].needs_reingest)
        => IndexedChunks(s) # {}

\* The chunks of source s written by process w
WrittenBy(s, w) == {c \in ChunksOf(chunks, s) : c.by = w}

\* C5: when two jobs of one source have run side by side and both have
\* returned success, the source's chunks are the chunk set of one of them,
\* whole, with no chunk_index twice.
C5_LastCommitterWins ==
    \A a, b \in Jobs :
        (/\ a # b
         /\ job[a].pc = "done" /\ job[a].result = "success"
         /\ job[b].pc = "done" /\ job[b].result = "success"
         /\ job[a].source_id = job[b].source_id)
        => /\ \E w \in {a, b} :
                /\ ChunksOf(chunks, job[a].source_id)
                     = WrittenBy(job[a].source_id, w)
                /\ {c.chunk_index : c \in WrittenBy(job[a].source_id, w)}
                     = 0 .. (NumChunks(job[w].file_hash) - 1)
           /\ \A c, d \in ChunksOf(chunks, job[a].source_id) :
                c.chunk_index = d.chunk_index => c = d

\* C8: a job with force = false that has downloaded bytes hashing to the
\* file_hash it found stored leaves the source's chunks and row as it found
\* them.
C8_SameHashIsNoOp ==
    \A j \in Jobs :
        (/\ JobRunning(j)
         /\ ~job[j].force
         /\ job[j].file_hash # 0
         /\ job[j].file_hash = job[j].before_row.file_hash)
        => /\ ChunksOf(chunks, job[j].source_id) = job[j].before_chunks
           /\ RowAsBefore(j)

\* C9: once the ingestion of an expansion source (precedence level 2) has
\* returned success, that ingestion has started override detection.
C9_ExpansionCommitStartsOverrideDetection ==
    \A j \in Jobs :
        (/\ job[j].pc = "done"
         /\ job[j].result = "success"
         /\ job[j].stage = "persist"
         /\ PrecedenceOf(SourceType(job[j].source_id)) = 2)
        => j \in overrides

\* C10: a source ingested with null embeddings is served by /ask and not
\* treated as unindexed: /ask never answers 202 with an ingestion job for a
\* finished source whose unexpired chunks all lack an embedding.
C10_NullEmbeddingsServedLexically ==
    \A j \in Jobs : job[j].via = "ask" => ~job[j].unembedded

-----------------------------------------------------------------------------
(* The rate limiter with two handlers *)

NextRate ==
    \/ \E x \in Handlers : RlBegin(x)
    \/ \E x \in Handlers : RlCount(x)
    \/ \E x \in Handlers : RlAdd(x)
    \/ \E x \in Handlers : RlFailOpen(x)
    \/ \E x \in Handlers : RlReturn(x)
    \/ RlWait

SpecRate == Init /\ [][NextRate]_vars

\* The requests the limiter admitted in the window of window_seconds that
\* starts at a
AdmittedIn(a) ==
    {t \in rl.admitted : a <= t /\ t < a + INGEST_IP_WINDOW_SECONDS}

\* C6: in every window of window_seconds (it is enough to look at the
\* windows that start at an admitted request) the limiter has admitted at
\* most max_requests requests of the key, also when two handlers check the
\* key at once; the request after the max_requests-th is not admitted.
C6_AdmittedWithinLimit ==
    \A a \in rl.admitted :
        Cardinality(AdmittedIn(a)) <= INGEST_IP_MAX_REQUESTS

-----------------------------------------------------------------------------
(* A progress stream beside the job it watches.  The event loop runs the   *)
(* generator whenever it can go on and asyncio.sleep returns, hence the    *)
(* weak fairness of its two steps; nothing is assumed of the worker.       *)

NextStream ==
    \/ \E s \in SourceIds : Enqueue(Watched, s, FALSE)
    \/ SetQueued(Watched)
    \/ JobBegin(Watched)
    \/ JobWork(Watched)
    \/ StatusExpire(Watched)
    \/ JobExpire(Watched)
    \/ StreamOpen
    \/ StreamPoll
    \/ \E d \in 1 .. MaxSleep : StreamSleep(d)
    \/ StreamCancel

SpecStream ==
    /\ Init
    /\ [][NextStream]_vars
    /\ WF_vars(StreamPoll)
    /\ WF_vars(\E d \in 1 .. MaxSleep : StreamSleep(d))

StreamClosed == stream.pc = "closed"

\* C7: every stream ends; a stream the client has not cut ends with the
\* event of a terminal state or, after the timeout, with the timeout's
\* error event; its last event is a complete or an error event; a final
\* event closes the stream and a closed stream sends nothing more.
C7_StreamTerminates ==
    /\ (stream.pc # "idle") ~> StreamClosed
    /\ [](StreamClosed /\ stream.end # "cancelled"
            => /\ stream.last_event \in {"complete", "error"}
               /\ \/ /\ stream.end = "terminal"
                     /\ stream.last.state \in STREAM_TERMINAL_STATES
                     /\ stream.last_event =
                          (IF stream.last.state = "ready"
                             THEN "complete" ELSE "error")
                  \/ /\ stream.end = "poll_error"
                     /\ stream.last_event = "error"
                  \/ /\ stream.end = "timeout"
                     /\ StreamTimedOut(stream.elapsed))
    /\ [](stream.last_event \in {"complete", "error"} => StreamClosed)
    /\ [][StreamClosed => stream' = stream]_vars

\* A stream that outlived its timeout and ended with the error event
C7_Witness ==
    /\ StreamClosed
    /\ stream.end = "timeout"
    /\ stream.last_event = "error"
    /\ stream.event_id >= 2


-----------------------------------------------------------------------------
(* The answer flow of /ask on its own: chunk lists and language-model      *)
(* outputs are drawn from the small sets above.                            *)

NextVerify ==
    \/ \E cands \in CandidateLists :
          \E scored \in ScoredLists(Len(cands)), is_conflict \in BOOLEAN :
             AskRetrieve(cands, scored, is_conflict)
    \/ \E q \in Quotes, id \in AnswerIds : AskGenerate(q, id)
    \/ \E q \in Quotes, id \in AnswerIds, raised \in BOOLEAN :
          AskGenerateStrict(q, id, raised)
    \/ AskRespond
    \/ CacheExpire

SpecVerify == Init /\ [][NextVerify]_vars

\* The edit distance by the textbook recurrence, row by row over b:
\* row[i + 1] is the distance between the first i characters of a and the
\* characters of b read so far
RECURSIVE EditRow(_, _, _, _)
EditRow(a, c, prev, row) ==
    IF Len(row) > Len(a) THEN row
    ELSE LET i == Len(row)
             subst == prev[i] + (IF a[i] = c THEN 0 ELSE 1)
         IN EditRow(a, c, prev,
                    Append(row, Min2(subst, Min2(prev[i + 1], row[i]) + 1)))

RECURSIVE EditRows(_, _, _, _)
EditRows(a, b, j, prev) ==
    IF j > Len(b) THEN prev[Len(a) + 1]
    ELSE EditRows(a, b, j + 1, EditRow(a, b[j], prev, <<j>>))

EditDistance(a, b) == EditRows(a, b, 1, [k \in 1 .. Len(a) + 1 |-> k - 1])

\* The contiguous pieces of a text
Windows(t) ==
    {SubSeq(t, i, j) : i \in 1 .. Len(t), j \in 1 .. Len(t)} \ {<<>>}

ClaimedDistance(n) == Max2(8, (2 * n) \div 100)

\* The quote is in the chunk, or close to a piece of it
QuoteSupportedBy(quote, text) ==
    LET nq == normalize_text(quote)
        nc == normalize_text(text) IN
    \/ \E i \in 0 .. Len(nc) - Len(nq) : SubSeq(nc, i + 1, i + Len(nq)) = nq
    \/ \E w \in Windows(nc) : EditDistance(nq, w) <= ClaimedDistance(Len(nq))

\* C4: every /ask response that reports a verified quote carries a quote
\* that, normalized, is a substring of one of the candidate chunks the
\* answer was generated from, or is within max(8, floor(0.02 * length))
\* edits of a window of that chunk.
C4_VerifiedQuoteIsInACandidate ==
    ver.response.answer.verified
        => \E k \in 1 .. Len(ver.cands) :
              QuoteSupportedBy(ver.response.answer.quote, ver.cands[k].text)

\* A response whose quote of more than eight characters was verified by
\* the fuzzy pass and is cited
C4_Witness ==
    /\ ver.response.cited
    /\ ver.response.answer.method = "fuzzy"
    /\ ver.response.answer.distance > 0
    /\ Len(normalize_text(ver.response.answer.quote)) > 8

-----------------------------------------------------------------------------
(* Claims about the answer flow of /ask *)

\* The response that follows two attempts whose quote was not verified
FallbackResponded ==
    /\ ver.pc = "responded"
    /\ ~ver.response.cached
    /\ ver.cands # <<>>
    /\ Len(ver.tried.quote) > 0
    /\ ver.tried.chunk_id # 0
    /\ ~ver.answer.verified

\* C11: when the first attempt and the strict second attempt both fail
\* citation verification, /ask still answers 200 with no citation,
\* confidence low, a note that the exact quote could not be verified, and
\* the top three candidate excerpts as relevant sections.
C11_FallbackCarriesRelevantSections ==
    FallbackResponded
        => /\ ~ver.response.cited
           /\ ver.response.confidence = "low"
           /\ "unverified" \in ver.response.notes
           /\ "relevant_sections" \in DOMAIN ver.response
           /\ ver.response.relevant_sections
                 = Min2(MAX_SECTIONS, Len(ver.cands))

\* Both passes of verify_citation against one chunk
VerifiesAgainst(quote, chunk) ==
    verify_citation(quote, chunk.id, <<chunk>>).verified

\* The candidates other than the named chunk that the quote verifies against
OtherMatches(quote, chunk_id, cands) ==
    {k \in 1 .. Len(cands) :
        cands[k].id # chunk_id /\ VerifiesAgainst(quote, cands[k])}

\* The last attempt named a candidate chunk and its quote failed both passes
\* against that chunk
NamedChunkFailed ==
    /\ ver.pc = "responded"
    /\ ~ver.response.cached
    /\ Len(ver.tried.quote) > 0
    /\ \E k \in 1 .. Len(ver.cands) :
          /\ ver.cands[k].id = ver.tried.chunk_id
          /\ ~VerifiesAgainst(ver.tried.quote, ver.cands[k])

\* C12: a quote that fails both verification passes against the chunk named
\* by quote_chunk_id is tried against every other candidate chunk, and if
\* one of them matches the answer is verified and its cited chunk id is
\* the matching chunk's.
C12_FailedQuoteIsTriedOnOtherChunks ==
    (NamedChunkFailed
     /\ OtherMatches(ver.tried.quote, ver.tried.chunk_id, ver.cands) # {})
        => /\ ver.response.cited
           /\ \E k \in OtherMatches(ver.tried.quote, ver.tried.chunk_id,
                                    ver.cands) :
                 ver.response.answer.chunk_id = ver.cands[k].id

\* The final score of the k-th retrieved candidate, 0 when there is none
FinalScore(k) ==
    IF k <= Len(ver.scored) THEN ver.scored[k].final_score ELSE 0

\* C14: the confidence of an /ask response is high iff the quote is
\* verified, the top candidate's final retrieval score is >= 0.85, its gap
\* to the second candidate's score is >= 0.08 and no conflict was detected;
\* otherwise medium iff the quote is verified, the top score is >= 0.70 and
\* no conflict was detected; otherwise low.  The scores are the hybrid
\* final scores of the retrieved candidates.
C14_ConfidenceFollowsFinalScores ==
    (ver.pc = "responded" /\ ~ver.response.cached /\ Len(ver.scored) >= 2)
        => ver.response.confidence
              = calculate_confidence(ver.response.answer.verified,
                                     FinalScore(1),
                                     FinalScore(1) - FinalScore(2),
                                     ver.conflict)

\* C15: after an /ask request has returned 200 with a verified citation,
\* an identical request made within the ttl of the answer cache is answered
\* from the cache with cached = true: it runs neither retrieval nor the
\* language model.
C15_RepeatIsAnsweredFromCache ==
    ver.served => ver.pc \notin {"retrieved", "attempt2", "answered"}

\* C18: when the verified cited chunk of an /ask answer has
\* overrides_chunk_id set, the response contains superseded_rule holding
\* the first 300 characters of the overridden base chunk, that chunk's page,
\* and a reason naming the expansion.
C18_SupersededRuleIsReturned ==
    (/\ ver.pc = "responded"
     /\ ~ver.response.cached
     /\ ver.response.cited
     /\ overrides_chunk_id(ver.response.answer.chunk_id) # 0)
        => /\ ver.response.superseded_rule # NoRule
           /\ ver.response.superseded_rule.chunk_id
                 = overrides_chunk_id(ver.response.answer.chunk_id)
           /\ ver.response.superseded_rule.reason # ""

\* C20: whenever the conflict detector reports a contradiction between the
\* top two candidates, the /ask response contains a conflict_note and its
\* confidence is at most medium, never high.
C20_ConflictIsNotedAndNeverHigh ==
    (ver.pc = "responded" /\ ~ver.response.cached /\ ver.conflict)
        => /\ ver.response.conflict_note # ""
           /\ "conflict" \in ver.response.notes
           /\ ver.response.confidence \in {"medium", "low"}

\* A response with a verified citation to a question whose top two
\* candidates, 0.82 and 0.79 of different precedence, were reported as
\* contradictory
C20_Witness ==
    /\ ver.pc = "responded"
    /\ ver.conflict
    /\ ver.response.cited
    /\ ver.scored[1].final_score = 82
    /\ ver.scored[2].final_score = 79
    /\ ver.response.conflict_note # ""

-----------------------------------------------------------------------------
(* Claims about functions on their own *)

InitFuzzy ==
    /\ IngestInit
    /\ rl = NoRl
    /\ stream = NoStream
    /\ ver = NoVer
    /\ gate = NoGate
    /\ calc \in FuzzyInputs

NextFuzzy == FuzzyPass

SpecFuzzy == InitFuzzy /\ [][NextFuzzy]_vars

\* C13: the fuzzy pass against the target chunk accepts a quote exactly
\* when the best-window distance is at most
\* max(8, floor(0.02 * normalized quote length)), for quotes of every length.
C13_FuzzyAcceptsUpToClaimedDistance ==
    (calc.op = "fuzzy" /\ calc.accepted # "unset")
        => (calc.accepted = "yes"
               <=> calc.distance <= ClaimedDistance(calc.len))

InitKey ==
    /\ IngestInit
    /\ rl = NoRl
    /\ stream = NoStream
    /\ ver = NoVer
    /\ gate = NoGate
    /\ calc \in KeyInputs

NextKey == CacheKeys

SpecKey == InitKey /\ [][NextKey]_vars

\* The text without its leading and trailing punctuation marks
TrimPunctuation(text) ==
    LET kept == {i \in 1 .. Len(text) :
                    IsWordChar(text[i]) \/ IsSpace(text[i])} IN
    IF kept = {} THEN <<>>
    ELSE SubSeq(text, SetMin(kept),
                CHOOSE i \in kept : \A j \in kept : j <= i)

\* What is left of a question when letter case, leading and trailing
\* punctuation and the length of its runs of whitespace are put aside
Essence(q) ==
    CollapseFrom(TrimPunctuation([i \in 1 .. Len(q) |-> Lower(q[i])]), 1)

\* C16: generate_cache_key returns the same key for any two questions that
\* differ only in letter case, in leading or trailing punctuation, or in
\* runs of whitespace, all other arguments being equal.
C16_KeyIgnoresCasePunctuationWhitespace ==
    (calc.op = "key" /\ calc.key1 # <<>>
     /\ Essence(calc.q1) = Essence(calc.q2))
        => calc.key1 = calc.key2

-----------------------------------------------------------------------------
(* The job timeout *)

\* One worker, and the timeout of the job it runs
NextTimeout ==
    \/ \E j \in Jobs, s \in SourceIds, f \in BOOLEAN :
         enqueue_ingestion(j, s, f)
    \/ \E j \in Jobs : WorkerTakes(j)
    \/ \E j \in Jobs : JobWork(j)
    \/ \E j \in Jobs : JobTimeout(j)

SpecTimeout == Init /\ [][NextTimeout]_vars

\* C17: an ingestion job that runs past its 300 s timeout is stopped and
\* its progress record ends in state failed with the timeout as the cause;
\* such a job never ends in state ready.
C17_TimedOutJobEndsFailed ==
    \A j \in Jobs :
       (job[j].timed_out /\ job[j].pc = "done")
          => /\ status[j].state = "failed"
             /\ job[j].result # "success"
-----------------------------------------------------------------------------
(* The gates on their own *)

NextGate ==
    \/ GateBegin
    \/ \E redis \in RedisStates : AskRateLimit(redis)
    \/ AskBudget
    \/ \E code \in {200, 202}, c \in AskCosts : AskBody(code, c)
    \/ \E redis \in RedisStates : CheckConcurrent(redis)
    \/ \E d \in GatePauses : GateWait(d)

InitGate ==
    /\ IngestInit
    /\ rl = NoRl
    /\ stream = NoStream
    /\ ver = NoVer
    /\ calc = NoCalc
    /\ gate \in {NoGate, BusyGate}

SpecGate == InitGate /\ [][NextGate]_vars

\* C21: for every /ask request the budget gate is evaluated before the
\* rate limiter and the rate limiter before the answer-cache lookup, so a
\* request the budget gate rejected has not been counted by the limiter.
C21_BudgetGateRunsBeforeRateLimiter ==
    /\ \A i, k \in 1 .. Len(gate.req.order) :
          /\ (gate.req.order[i] = "budget"
                /\ gate.req.order[k] = "rate_limit") => i < k
          /\ (gate.req.order[i] = "rate_limit"
                /\ gate.req.order[k] = "cache") => i < k
    /\ gate.req.status = 503 => ~gate.req.counted

\* The sum of the cost_usd of the rows younger than 24 hours
RECURSIVE SpentSince(_, _)
SpentSince(rows, t) ==
    IF rows = <<>> THEN 0
    ELSE (IF Head(rows).created_at > t THEN Head(rows).cost_usd ELSE 0)
           + SpentSince(Tail(rows), t)

\* C28: a request is rejected with 503 whenever the cost_usd recorded in
\* the 24 hours before the gate runs sum to the daily budget or more, and
\* is let through by the gate otherwise.
C28_BudgetGateRejectsAtBudget ==
    /\ (gate.req.pc = "done" /\ gate.req.status = 503)
          => SpentSince(gate.costs, gate.clock - DAY_SECONDS) >= DEFAULT_BUDGET
    /\ gate.req.pc = "body"
          => SpentSince(gate.costs, gate.clock - DAY_SECONDS) < DEFAULT_BUDGET
    /\ (gate.req.pc = "done" /\ gate.req.status \in {200, 202})
          => gate.req.spend < DEFAULT_BUDGET

\* A request rejected with the day's spend exactly at the budget
C28_Witness ==
    /\ gate.req.pc = "done"
    /\ gate.req.status = 503
    /\ gate.req.spend = DEFAULT_BUDGET
    /\ Len(gate.costs) >= 2

\* C29: when Redis cannot be reached or raises during a rate-limit or a
\* concurrent-limit check, the check admits the request.
C29_LimitsFailOpen ==
    /\ gate.req.raised => (gate.req.status # 429 /\ gate.req.pc # "first")
    /\ gate.cc.raised => gate.cc.allowed

\* Both checks failed open with the window and the counter full
C29_Witness ==
    /\ gate.req.raised
    /\ gate.req.pc = "done"
    /\ gate.req.status = 200
    /\ Cardinality({m \in gate.zset :
                       m > gate.clock - ASK_IP_WINDOW_SECONDS})
         >= ASK_IP_MAX_REQUESTS
    /\ gate.cc.raised
    /\ gate.cc.allowed
    /\ ConcurrentNow >= INGEST_MAX_CONCURRENT

\* C22: every language-model call made while serving an /ask request (the
\* first generation, the strict regeneration, the conflict classification)
\* has produced an ApiCost row by the time the request is answered.
C22_EveryModelCallIsLogged ==
    (ver.pc = "responded" /\ ~ver.response.cached)
        => ver.llm_calls \subseteq ver.cost_rows

\* The job's ingestion has just failed at the text extraction (the PDF
\* cannot be parsed) or in the OCR branch (OCR unavailable, too little text)
CorpusFailure(j) ==
    /\ job[j].pc # "done"
    /\ job'[j].pc = "done"
    /\ job'[j].stage \in {"extract", "ocr"}
    /\ job'[j].result \in {"error", "needs_ocr", "ocr_failed"}

\* C23: whenever an ingestion fails because the PDF cannot be parsed,
\* because OCR is unavailable or because OCR yields too little text, the
\* source is marked needs_ocr and the job ends in the failed state.
C23_CorpusFailureMarksNeedsOcr ==
    [][\A j \in Jobs :
         CorpusFailure(j)
         => /\ sources'[job[j].source_id].needs_ocr
            /\ status'[j].state = "failed"]_vars

\* The sources of the request that have no unexpired chunk with an
\* embedding
WithoutIndexedChunk(edition) ==
    {s \in AskSourceIds(edition) :
        ~\E c \in chunks : c.source_id = s /\ c.emb /\ c.expires_at > now}

\* The jobs a step has put on the queue for /ask
NewAskJobs ==
    {j \in Jobs : job[j].pc = "absent" /\ job'[j].pc = "queued"
                  /\ job'[j].via = "ask"}

AskJobEndsReady(j) ==
    /\ job[j].via = "ask"
    /\ job[j].pc # "done"
    /\ job'[j].pc = "done"
    /\ status'[j].state = "ready"

\* C30: when a job that a 202 of /ask enqueued reaches ready, its source is
\* found indexed (it has an unexpired chunk with an embedding), so that a
\* later /ask for the game no longer answers 202 on its account.
C30_ReadyJobLeavesSourceIndexed ==
    [][\A j \in Jobs :
         AskJobEndsReady(j)
         => \E c \in chunks' :
               /\ c.source_id = job[j].source_id
               /\ c.emb
               /\ c.expires_at > now']_vars

-----------------------------------------------------------------------------
(* Functions on their own *)

InitRank ==
    /\ IngestInit
    /\ rl = NoRl
    /\ stream = NoStream
    /\ ver = NoVer
    /\ gate = NoGate
    /\ calc \in RankInputs

NextRank == HybridRank

SpecRank == InitRank /\ [][NextRank]_vars

\* C25: in the ranked list candidates of equal final score stand in
\* ascending order of chunk id, so that the list and its top final_limit
\* slice do not depend on the order in which the results arrived.
C25_TiesBreakOnChunkId ==
    (calc.op = "rank" /\ calc.done)
        => \A i, k \in 1 .. Len(calc.top) :
              (i < k /\ calc.top[i].final_score = calc.top[k].final_score)
                 => calc.top[i].id < calc.top[k].id

InitExpand ==
    /\ IngestInit
    /\ rl = NoRl
    /\ stream = NoStream
    /\ ver = NoVer
    /\ gate = NoGate
    /\ calc \in ExpandInputs

NextExpand == HybridExpand

SpecExpand == InitExpand /\ [][NextExpand]_vars

\* The candidates next to chunk id: same source, chunk_index one lower
\* (d = -1) or one higher (d = 1)
NeighborsOf(scored, id, d) ==
    {n \in {scored[i] : i \in 1 .. Len(scored)} :
        /\ ChunkTable[n].source_id = ChunkTable[id].source_id
        /\ ChunkTable[n].chunk_index = ChunkTable[id].chunk_index + d}

\* C26: every candidate that is a neighbour (same source, chunk_index one
\* lower or one higher) of one of the top expand_top_k candidates is in the
\* returned list; the list begins with the best candidate between its
\* previous and its next neighbour; no chunk is in the list twice.
C26_NeighborsOfTopChunksAreReturned ==
    (calc.op = "expand" /\ calc.done) =>
        LET top == SubSeq(calc.scored, 1,
                          Min2(calc.final_limit, Len(calc.scored)))
            k == Min2(calc.expand_top_k, Len(top))
            returned == {calc.final[i] : i \in 1 .. Len(calc.final)}
            prev == NeighborsOf(calc.scored, top[1], 0 - 1)
            next == NeighborsOf(calc.scored, top[1], 1)
            at == Cardinality(prev) + 1
        IN /\ \A i \in 1 .. k :
                NeighborsOf(calc.scored, top[i], 0 - 1)
                    \cup NeighborsOf(calc.scored, top[i], 1) \subseteq returned
           /\ Len(calc.final) >= at + Cardinality(next)
           /\ calc.final[at] = top[1]
           /\ prev # {} => calc.final[1] \in prev
           /\ next # {} => calc.final[at + 1] \in next
           /\ \A i, j \in 1 .. Len(calc.final) :
                calc.final[i] = calc.final[j] => i = j

InitChunk ==
    /\ IngestInit
    /\ rl = NoRl
    /\ stream = NoStream
    /\ ver = NoVer
    /\ gate = NoGate
    /\ calc \in ChunkInputs

NextChunk == ChunkPage

SpecChunk == InitChunk /\ [][NextChunk]_vars

\* C27: a page of one sentence whose estimated tokens exceed max_tokens
\* gives more than one chunk, every chunk has estimated tokens of at most
\* max_tokens, and each chunk begins with words of the chunk before it.
C27_LongSentenceSplitsWithinMaxTokens ==
    (/\ calc.op = "chunk"
     /\ calc.done
     /\ estimate_tokens(JoinedLength(calc.words, 1, Len(calc.words)))
            > calc.max_tokens)
        => /\ Len(calc.chunks) > 1
           /\ \A i \in 1 .. Len(calc.chunks) :
                calc.chunks[i].estimated_tokens <= calc.max_tokens
           /\ \A i \in 1 .. Len(calc.chunks) - 1 :
                calc.chunks[i + 1].first <= calc.chunks[i].last

-----------------------------------------------------------------------------
(* The API handler beside the worker: queue.enqueue(...) hands the job to  *)
(* the worker process before enqueue_ingestion writes the "queued" record. *)

NextQueue ==
    \/ \E j \in Jobs, s \in SourceIds, f \in BOOLEAN : Enqueue(j, s, f)
    \/ \E j \in Jobs : SetQueued(j)
    \/ \E j \in Jobs : WorkerTakes(j)
    \/ \E j \in Jobs : JobWork(j)

SpecQueue == Init /\ [][NextQueue]_vars

\* C31: once the progress record of a job holds a terminal state (ready or
\* failed), no write puts a state that is not terminal in its place; the
\* "queued" record of the API never lands on the worker's terminal record.
C31_TerminalRecordIsNotReplaced ==
    [][\A j \in Jobs :
         status[j].state \in TerminalStates
            => status'[j].state \in TerminalStates]_vars

-----------------------------------------------------------------------------
(* Retrieval during a re-ingestion *)

NextSearch ==
    \/ \E j \in Jobs, s \in Sources, f \in BOOLEAN : enqueue_ingestion(j, s, f)
    \/ \E j \in Jobs : WorkerTakes(j)
    \/ \E j \in Jobs : JobWork(j)
    \/ \E s \in Sources : KeywordSearch(s)

SpecSearch == Init /\ [][NextSearch]_vars

\* C32: a retrieval that runs while a source with chunks is ingested again
\* reads either all the chunks the source had or all the chunks of the new
\* ingestion, never none and never a part of them.
C32_SearchSeesWholeChunkSet ==
    (calc.op = "search" /\ calc.during # "none" /\ calc.old # {})
        => \/ calc.rows = calc.old
           \/ /\ \A c \in calc.rows : c.by = calc.during
              /\ Cardinality(calc.rows) = NumChunks(calc.file_hash)

-----------------------------------------------------------------------------
(* Progress bands *)

\* The band of a stage, by the state its records carry; after_ocr tells
\* that the job's text came from OCR
BandOf(state, after_ocr) ==
    CASE state = "downloading" -> 5 .. 30
      [] state = "extracting" -> 30 .. 50
      [] state = "ocr" -> 52 .. 80
      [] state = "chunking" -> IF after_ocr THEN 80 .. 85 ELSE 50 .. 60
      [] state = "embedding" -> IF after_ocr THEN 85 .. 90 ELSE 60 .. 90
      [] state \in {"saving", "ready"} -> 90 .. 100
      [] OTHER -> 0 .. 100

\* C33: every progress record of a running job has its pct in the band of
\* its stage: download 5-30, native extraction 30-50, OCR 52-80, chunking
\* 50-60 (80-85 after OCR), embedding 60-90 (85-90 after OCR), persist
\* 90-100.
C33_PctWithinStageBand ==
    \A j \in Jobs :
        JobRunning(j)
           => status[j].pct
                 \in BandOf(status[j].state,
                            detect_needs_ocr(job[j].file_hash))

-----------------------------------------------------------------------------
(* The concurrent ceiling *)

InitConcurrent ==
    /\ IngestInit
    /\ rl = NoRl
    /\ stream = NoStream
    /\ ver = NoVer
    /\ gate = NoGate
    /\ calc \in CcInputs

NextConcurrent ==
    \/ \E x \in Handlers : CcGet(x)
    \/ \E x \in Handlers : CcIncr(x)
    \/ IngestionEnds

SpecConcurrent == InitConcurrent /\ [][NextConcurrent]_vars

\* C34: the concurrent counter of the ingestions never exceeds 50, also
\* when several requests are checked at the same time.
C34_CounterWithinCeiling ==
    calc.op = "concurrent" => calc.counter <= INGEST_MAX_CONCURRENT

\* C35: an admitted request gives its slot back when its ingestion ends:
\* with no check under way the counter is the number of ingestions still
\* running.
C35_CounterIsRunningIngestions ==
    (calc.op = "concurrent" /\ \A x \in Handlers : calc.h[x].pc = "idle")
        => calc.counter = calc.running

-----------------------------------------------------------------------------
(* Re-ingestion of a source marked needs_reingest *)

\* C36: the next ingestion without force of a source marked needs_reingest
\* (as the cleanup of its expired chunks marks it) that has downloaded the
\* document and not failed leaves the source with unexpired chunks and
\* needs_reingest cleared, whether the document's hash is the stored one
\* or not.
C36_MarkedSourceIsIngestedAgain ==
    (/\ svc.pc = "done"
     /\ ~svc.force
     /\ svc.seen_reingest
     /\ svc.file_hash # 0
     /\ svc.result \notin {"error", "needs_ocr"})
        => /\ LiveChunks(svc.source_id) # {}
           /\ ~sources[svc.source_id].needs_reingest

-----------------------------------------------------------------------------
(* Event ids of a progress stream *)

\* The step sends an event: one for a changed (state, pct), or the error
\* event of the timeout or of a failed poll
EventSent ==
    \/ stream'.event_id # stream.event_id
    \/ /\ stream.pc = "poll"
       /\ stream'.end \in {"timeout", "poll_error"}

\* C37: the ids of the events of one stream increase: every event sent
\* after another, the last timeout or poll-error event too, has an id
\* above the id of the event before it.
C37_EventIdsIncrease ==
    [][(EventSent /\ stream.last_event # "none")
          => stream'.last_id > stream.last_id]_vars

-----------------------------------------------------------------------------
(* The calls of the answer model *)

\* C38: one /ask request calls the answer-generation model at most twice:
\* once for the first attempt and, only when that attempt gave no verified
\* quote, once for the strict second attempt.
C38_AtMostTwoGenerations == ver.generations <= 2

-----------------------------------------------------------------------------
(* The cost of override detection *)

InitOverrides ==
    /\ IngestInit
    /\ rl = NoRl
    /\ stream = NoStream
    /\ ver = NoVer
    /\ gate = NoGate
    /\ calc \in OverrideInputs

NextOverrides == DetectOverrides

SpecOverrides == InitOverrides /\ [][NextOverrides]_vars

\* C39: detect_overrides makes at most one classification call for each
\* expansion chunk that has an override keyword and none for a chunk that
\* has none, however many base chunks there are.
C39_OneCallPerKeywordChunk ==
    (calc.op = "overrides" /\ calc.done) =>
        \A e \in 1 .. Len(calc.expansion_chunks) :
            LET calls == {k \in 1 .. Len(calc.llm_calls) :
                             calc.llm_calls[k].exp = e} IN
            /\ Cardinality(calls) <= 1
            /\ ~calc.expansion_chunks[e].kw => calls = {}

\* Two keyword chunks and a chunk without keyword among three base chunks
\* that pass the threshold: one call for the first, none for the second
C39_Witness ==
    /\ calc.op = "overrides"
    /\ calc.done
    /\ Len(calc.base_chunks) = 3
    /\ \A b \in 1 .. 3 : calc.base_chunks[b]
    /\ Len(calc.expansion_chunks) = 2
    /\ calc.expansion_chunks[1].kw
    /\ ~calc.expansion_chunks[2].kw
    /\ \A e \in 1 .. 2, b \in 1 .. 3 :
          calc.expansion_chunks[e].sim[b] >= SIMILARITY_THRESHOLD
    /\ Len(calc.llm_calls) = 1

-----------------------------------------------------------------------------
(* The size of the embedding cache *)

InitCache ==
    /\ IngestInit
    /\ rl = NoRl
    /\ stream = NoStream
    /\ ver = NoVer
    /\ gate = NoGate
    /\ calc \in CacheInputs

NextCache == \E key \in CacheKeyIds, tick \in {0, 1} : CacheSet(key, tick)

SpecCache == InitCache /\ [][NextCache]_vars

\* C40: after any sequence of set operations the cache holds at most
\* max_size entries.
C40_CacheWithinMaxSize ==
    calc.op = "cache" => Len(calc.cache) <= calc.max_size

\* A cache of three entries that is full again after an eviction
C40_Witness ==
    /\ calc.op = "cache"
    /\ calc.max_size = 3
    /\ Len(calc.cache) = 3
    /\ calc.evictions >= 1

====
